---------------------------- MODULE Spec2Model ----------------------------
(***************************************************************************)
(* A model of app.py, the Streamlit front end of the multiple-disease      *)
(* prediction web application.                                             *)
(*                                                                         *)
(* Streamlit executes the whole script, top to bottom, once for every user *)
(* interaction.  So every action below is one interaction followed by the  *)
(* script run it triggers: the module-level statements (the model loading  *)
(* of lines 320-354) and then main().  What survives from one run to the   *)
(* next is st.session_state (logged_in, username and the values of the     *)
(* widgets that the last run rendered), the data base, and the files on    *)
(* disk.  What a run writes to the page is held in screen;  the classifier *)
(* invocations a run made are held in calls.                               *)
(*                                                                         *)
(* Conventions.                                                            *)
(*  - A Python value that reaches a classifier is tagged with its type:    *)
(*    Num(n) or Str(s).  Python's == on such values is TLA+ equality.      *)
(*  - A number entered in a form is held as an integer.  Quantities that   *)
(*    are fractional in the code (a float min_value, max_value or step)    *)
(*    are held in thousandths, so 0.02 is 20 and 70.0 is 70000.  A number  *)
(*    widget takes two of its admissible values: its initial value and one *)
(*    other (its max_value, or the initial value plus one where the code   *)
(*    sets no maximum).                                                    *)
(*  - The static images (d3.jpg, positive.jpg, ...) opened by the pages    *)
(*    are taken to be present; the free-text name fields only prefix the   *)
(*    displayed message and are left out of the forms.                     *)
(***************************************************************************)
EXTENDS Integers, Sequences, FiniteSets, TLC

VARIABLES
    artifacts,   \* the model files present on disk
    columns,     \* the columns of the users table of data.db, << >> if
                 \* the table does not exist
    users,       \* the rows of the users table of data.db
    logged_in,   \* st.session_state.logged_in
    username,    \* st.session_state.username
    choice,      \* the sidebar radio "Go to:"
    selected,    \* the option_menu of the prediction pages
    form,        \* the values of the widgets of the prediction page shown
    loads,       \* per classifier variable, how often the last run assigned it
    pressed,     \* the key of the button pressed in the last run, or ""
    calls,       \* the classifier invocations of the last run, in order
    screen,      \* what the last run wrote to the page
    photo,       \* the profile photo the last run put in the sidebar, or None
    chat,        \* what the last run wrote in the chatbot section
    failed       \* history: the classifier of the first request that ended
                 \* in an exception, "" while no request has (recorded only
                 \* by PressTracked; nothing in the app reads it)

vars == <<artifacts, columns, users, logged_in, username, choice, selected, form,
          loads, pressed, calls, screen, photo, chat, failed>>

-----------------------------------------------------------------------------
(* Bounds of the model.                                                    *)

\* At most this many widgets of a form differ from their initial value.
MaxEdits == 2

\* At most this many of the model files are missing from the disk.
MaxMissing == 1

\* The number of symptoms in the vocabulary of the symptom model.
NumSymptoms == 2

-----------------------------------------------------------------------------
(* Python values.                                                          *)

Num(n) == [t |-> "num", n |-> n]

Str(s) == [t |-> "str", s |-> s]

\* None, as the value of st.session_state.username.
None == "<None>"

Range(s) == {s[i] : i \in DOMAIN s}

-----------------------------------------------------------------------------
(* The widgets of the prediction pages, in the order the pages create      *)
(* them.  Each is named by the Python variable that receives its value;    *)
(* labeled tells the widgets that offer labels to choose from (a selectbox *)
(* or a checkbox) from those that take a number or a set.                  *)

\* st.number_input and st.slider.
Number(key, init, other) ==
    [key |-> key, init |-> init, values |-> {init, other}, labeled |-> FALSE]

\* st.selectbox over a list of labels: the value is the label.
Selectbox(key, options) ==
    [key |-> key, init |-> options[1], values |-> Range(options), labeled |-> TRUE]

\* st.selectbox over list(range(n)) with a format_func: the value is the index.
SelectboxIndex(key, n) ==
    [key |-> key, init |-> 0, values |-> 0 .. (n - 1), labeled |-> TRUE]

\* st.checkbox.
Checkbox(key) == [key |-> key, init |-> FALSE, values |-> BOOLEAN, labeled |-> TRUE]

\* A variant of Multiselect that also takes a name that is not an option.
Multiselect_free(key, options) ==
    [key |-> key, init |-> {}, values |-> SUBSET (options \cup {0}), labeled |-> FALSE]

\* st.multiselect: the value is the set of the options selected.
Multiselect(key, options) ==
    [key |-> key, init |-> {}, values |-> SUBSET options, labeled |-> FALSE]

diabetes_widgets ==
    << Number("Pregnancies", 0, 20),
       Number("Glucose", 0, 200),
       Number("BloodPressure", 0, 150),
       Number("SkinThickness", 0, 100),
       Number("Insulin", 0, 900),
       Number("BMI", 0, 70000),
       Number("DiabetesPedigreefunction", 0, 3000),
       Number("Age", 1, 120) >>

heart_widgets ==
    << Number("age_h", 1, 120),
       SelectboxIndex("value", 2),
       SelectboxIndex("value_cp", 4),
       Number("trestbps", 50, 200),
       Number("chol", 100, 600),
       SelectboxIndex("value_re", 3),
       Number("thalach", 50, 250),
       Number("oldpeak", 0, 10000),
       SelectboxIndex("value_s", 3),
       Number("ca", 0, 3),
       SelectboxIndex("value_thal", 3),
       Checkbox("agree"),
       Checkbox("agree1") >>

parkinson_widgets ==
    << Number("MDVP", 50000, 300000),
       Number("MDVPFIZ", 50000, 400000),
       Number("MDVPFLO", 50000, 200000),
       Number("MDVPJITTER", 0, 1000),
       Number("MDVPJitterAbs", 0, 20),
       Number("MDVPRAP", 0, 20),
       Number("MDVPPPQ", 0, 20),
       Number("JitterDDP", 0, 20),
       Number("MDVPShimmer", 0, 200),
       Number("MDVPShimmer_dB", 0, 2000),
       Number("Shimmer_APQ3", 0, 200),
       Number("ShimmerAPQ5", 0, 200),
       Number("MDVP_APQ", 0, 200),
       Number("ShimmerDDA", 0, 500),
       Number("NHR", 0, 1000),
       Number("HNR", 0, 50000),
       Number("RPDE", 0, 2000),
       Number("DFA", 0, 2000),
       Number("spread1", -10000, 10000),
       Number("spread2", -10000, 10000),
       Number("D2", 0, 10000),
       Number("PPE", 0, 5000) >>

lung_cancer_widgets ==
    << Selectbox("gender", <<"Male", "Female">>),
       Number("age", 0, 1000),
       Selectbox("smoking", <<"NO", "YES">>),
       Selectbox("yellow_fingers", <<"NO", "YES">>),
       Selectbox("anxiety", <<"NO", "YES">>),
       Selectbox("peer_pressure", <<"NO", "YES">>),
       Selectbox("chronic_disease", <<"NO", "YES">>),
       Selectbox("fatigue", <<"NO", "YES">>),
       Selectbox("allergy", <<"NO", "YES">>),
       Selectbox("wheezing", <<"NO", "YES">>),
       Selectbox("alcohol_consuming", <<"NO", "YES">>),
       Selectbox("coughing", <<"NO", "YES">>),
       Selectbox("shortness_of_breath", <<"NO", "YES">>),
       Selectbox("swallowing_difficulty", <<"NO", "YES">>),
       Selectbox("chest_pain", <<"NO", "YES">>) >>

liver_widgets ==
    << SelectboxIndex("value_gender", 2),
       Number("age_lv", 1, 120),
       Number("Total_Bilirubin", 0, 50000),
       Number("Direct_Bilirubin", 0, 50000),
       Number("Alkaline_Phosphotase", 0, 1000),
       Number("Alamine_Aminotransferase", 0, 1000),
       Number("Aspartate_Aminotransferase", 0, 1000),
       Number("Total_Protiens", 0, 20000),
       Number("Albumin", 0, 10000),
       Number("Albumin_and_Globulin_Ratio", 0, 5000) >>

hepatitis_widgets ==
    << Number("age_hep", 1, 120),
       Selectbox("sex_hep", <<"Male", "Female">>),
       Number("total_bilirubin", 0, 1000),
       Number("direct_bilirubin", 0, 1000),
       Number("alkaline_phosphatase", 0, 1),
       Number("alamine_aminotransferase", 0, 1),
       Number("aspartate_aminotransferase", 0, 1),
       Number("total_proteins", 0, 1000),
       Number("albumin", 0, 1000),
       Number("albumin_and_globulin_ratio", 0, 1000),
       Number("ggt_value", 0, 1),
       Number("prot_value", 0, 1000) >>

jaundice_widgets ==
    << Number("age_j", 0, 1000),
       SelectboxIndex("value_j", 2),
       Number("Total_Bilirubin_j", 0, 1000),
       Number("Direct_Bilirubin_j", 0, 1000),
       Number("Alkaline_Phosphotase_j", 0, 1000),
       Number("Alamine_Aminotransferase_j", 0, 1000),
       Number("Total_Protiens_j", 0, 1000),
       Number("Albumin_j", 0, 1000) >>

chronic_kidney_widgets ==
    << Number("age_k", 25, 100),
       Number("bp", 120, 200),
       Number("sg", 1020, 1050),
       Number("al", 0, 5),
       Number("su", 0, 5),
       Selectbox("rbc", <<"Normal", "Abnormal">>),
       Selectbox("pc", <<"Normal", "Abnormal">>),
       Selectbox("pcc", <<"Present", "Not Present">>),
       Selectbox("ba", <<"Present", "Not Present">>),
       Number("bgr", 120, 200),
       Number("bu", 60, 200),
       Number("sc", 3, 10),
       Number("sod", 140, 200),
       Number("pot", 4, 7),
       Number("hemo", 12, 17),
       Number("pcv", 40, 60),
       Number("wc", 10000, 20000),
       Number("rc", 4, 8),
       Selectbox("htn", <<"Yes", "No">>),
       Selectbox("dm", <<"Yes", "No">>),
       Selectbox("cad", <<"Yes", "No">>),
       Selectbox("appet", <<"Good", "Poor">>),
       Selectbox("pe", <<"Yes", "No">>),
       Selectbox("ane", <<"Yes", "No">>) >>

breast_cancer_widgets ==
    << Number("radius_mean", 15000, 30000),
       Number("texture_mean", 20000, 40000),
       Number("perimeter_mean", 90000, 190000),
       Number("area_mean", 750000, 2501000),
       Number("smoothness_mean", 100, 250),
       Number("compactness_mean", 150, 300),
       Number("concavity_mean", 200, 500),
       Number("concave_points_mean", 100, 200),
       Number("symmetry_mean", 500, 1000),
       Number("fractal_dimension_mean", 50, 100),
       Number("radius_se", 1000, 3000),
       Number("texture_se", 1000, 2000),
       Number("perimeter_se", 10000, 30000),
       Number("area_se", 150000, 500000),
       Number("smoothness_se", 10, 30),
       Number("compactness_se", 100, 200),
       Number("concavity_se", 20, 50),
       Number("concave_points_se", 10, 30),
       Number("symmetry_se", 500, 1000),
       Number("fractal_dimension_se", 50, 100),
       Number("radius_worst", 20000, 40000),
       Number("texture_worst", 25000, 50000),
       Number("perimeter_worst", 120000, 250000),
       Number("area_worst", 1500000, 4250000),
       Number("smoothness_worst", 150, 300),
       Number("compactness_worst", 300, 600),
       Number("concavity_worst", 400, 800),
       Number("concave_points_worst", 100, 200),
       Number("symmetry_worst", 500, 1000),
       Number("fractal_dimension_worst", 100, 200) >>

-----------------------------------------------------------------------------
(* The symptom model.  code/DiseaseModel.py and code/helper.py are not     *)
(* among the sources: the vocabulary and the encoder follow the            *)
(* specification (sections 3 and 4.2).                                     *)

\* DiseaseModel.all_symptoms: the vocabulary, a fixed sequence of names.
all_symptoms == [i \in 1 .. NumSymptoms |-> i]

\* helper.prepare_symptoms_array: one cell per vocabulary entry, in its order.
prepare_symptoms_array(symptoms) ==
    [i \in 1 .. NumSymptoms |-> IF all_symptoms[i] \in symptoms THEN Num(1) ELSE Num(0)]

disease_prediction_widgets ==
    << Multiselect("symptoms", Range(all_symptoms)) >>

-----------------------------------------------------------------------------
(* What a page hands to a classifier: a list of one row (no column names)  *)
(* or a one-row pandas DataFrame (named columns, in dict order).           *)

List(row) == [columns |-> << >>, values |-> row]

DataFrame(pairs) ==
    [columns |-> [i \in DOMAIN pairs |-> pairs[i][1]],
     values  |-> [i \in DOMAIN pairs |-> pairs[i][2]]]

\* DataFrame.replace(mapping): a cell equal to a key becomes that key's value.
replace(df, from, to) ==
    [df EXCEPT !.values =
        [i \in DOMAIN df.values |->
            IF \E j \in DOMAIN from : df.values[i] = from[j]
            THEN to[CHOOSE j \in DOMAIN from : df.values[i] = from[j]]
            ELSE df.values[i]]]

\* pd.to_numeric(errors='coerce') on the named columns: a cell that is not a
\* number becomes NaN.
NaN == [t |-> "nan"]

to_numeric(df, numeric_columns) ==
    [df EXCEPT !.values =
        [i \in DOMAIN df.values |->
            IF df.columns[i] \in numeric_columns /\ df.values[i].t # "num"
            THEN NaN
            ELSE df.values[i]]]

-----------------------------------------------------------------------------
(* The categorical encodings of the pages.                                 *)

\* heart_page, lines 470-478.
heart_sex(value) ==
    LET display == <<"male", "female">>
    IN  IF display[value + 1] = "male" THEN 1
        ELSE IF display[value + 1] = "female" THEN 0
        ELSE 0

\* A variant of heart_cp that has no code of its own for the last label.
heart_cp_collapsed(value_cp) ==
    LET display_cp == <<"typical angina", "atypical angina", "non - anginal pain", "asymptotic">>
    IN  IF display_cp[value_cp + 1] = "typical angina" THEN 0
        ELSE IF display_cp[value_cp + 1] = "atypical angina" THEN 1
        ELSE IF display_cp[value_cp + 1] = "non - anginal pain" THEN 2
        ELSE 0

heart_cp(value_cp) ==
    LET display_cp == <<"typical angina", "atypical angina", "non - anginal pain", "asymptotic">>
    IN  IF display_cp[value_cp + 1] = "typical angina" THEN 0
        ELSE IF display_cp[value_cp + 1] = "atypical angina" THEN 1
        ELSE IF display_cp[value_cp + 1] = "non - anginal pain" THEN 2
        ELSE IF display_cp[value_cp + 1] = "asymptotic" THEN 3
        ELSE 0

heart_restecg(value_re) ==
    LET display_re == <<"normal", "having ST-T wave abnormality", "left ventricular hypertrophy">>
    IN  IF display_re[value_re + 1] = "normal" THEN 0
        ELSE IF display_re[value_re + 1] = "having ST-T wave abnormality" THEN 1
        ELSE IF display_re[value_re + 1] = "left ventricular hypertrophy" THEN 2
        ELSE 0

heart_slope(value_s) ==
    LET display_s == <<"upsloping", "flat", "downsloping">>
    IN  IF display_s[value_s + 1] = "upsloping" THEN 0
        ELSE IF display_s[value_s + 1] = "flat" THEN 1
        ELSE IF display_s[value_s + 1] = "downsloping" THEN 2
        ELSE 0

heart_thal(value_thal) ==
    LET display_thal == <<"normal", "fixed defect", "reversible defect">>
    IN  IF display_thal[value_thal + 1] = "normal" THEN 0
        ELSE IF display_thal[value_thal + 1] = "fixed defect" THEN 1
        ELSE IF display_thal[value_thal + 1] = "reversible defect" THEN 2
        ELSE 0

heart_exang(agree) == IF agree THEN 1 ELSE 0

heart_fbs(agree1) == IF agree1 THEN 1 ELSE 0

\* A variant of liver_Sex that applies the mapping of the heart page.
liver_Sex_as_heart(value_gender) ==
    LET display_gender == <<"Male", "Female">>
    IN  IF display_gender[value_gender + 1] = "Male" THEN 1 ELSE 0

\* liver_page, lines 796-800.
liver_Sex(value_gender) ==
    LET display_gender == <<"Male", "Female">>
    IN  IF display_gender[value_gender + 1] = "Male" THEN 0 ELSE 1

\* hepatitis_page, lines 863-864.
hepatitis_sex_hep(sex_hep) == IF sex_hep = "Male" THEN 1 ELSE 2

\* jaundice_page, lines 933-940.
jaundice_Sex_j(value_j) ==
    LET display_j == <<"male", "female">>
    IN  IF display_j[value_j + 1] = "male" THEN 0
        ELSE IF display_j[value_j + 1] = "female" THEN 1
        ELSE 0

\* chronic_kidney_page, lines 986-997 and 1020-1038.
kidney_rbc(rbc) == IF rbc = "Normal" THEN 1 ELSE 0

kidney_pc(pc) == IF pc = "Normal" THEN 1 ELSE 0

kidney_pcc(pcc) == IF pcc = "Present" THEN 1 ELSE 0

kidney_ba(ba) == IF ba = "Present" THEN 1 ELSE 0

kidney_htn(htn) == IF htn = "Yes" THEN 1 ELSE 0

kidney_dm(dm) == IF dm = "Yes" THEN 1 ELSE 0

kidney_cad(cad) == IF cad = "Yes" THEN 1 ELSE 0

kidney_appet(appet) == IF appet = "Good" THEN 1 ELSE 0

kidney_pe(pe) == IF pe = "Yes" THEN 1 ELSE 0

kidney_ane(ane) == IF ane = "Yes" THEN 1 ELSE 0

\* lung_cancer_page, line 773: the mapping handed to DataFrame.replace.
lung_replace(user_data) ==
    replace(user_data, <<Str("NO"), Str("YES")>>, <<Num(1), Num(2)>>)

-----------------------------------------------------------------------------
(* The feature rows of the pages, from the form f of the page.             *)

\* A variant of diabetes_features whose first cell depends on the run before:
\* after a run in which a button was pressed it is 0.
diabetes_features_by_run(f) ==
    List(<< IF pressed = "" THEN Num(f.Pregnancies) ELSE Num(0),
            Num(f.Glucose), Num(f.BloodPressure),
            Num(f.SkinThickness), Num(f.Insulin), Num(f.BMI),
            Num(f.DiabetesPedigreefunction), Num(f.Age) >>)

diabetes_features(f) ==
    List(<< Num(f.Pregnancies), Num(f.Glucose), Num(f.BloodPressure),
            Num(f.SkinThickness), Num(f.Insulin), Num(f.BMI),
            Num(f.DiabetesPedigreefunction), Num(f.Age) >>)

heart_features(f) ==
    LET sex     == heart_sex(f.value)
        cp      == heart_cp(f.value_cp)
        restecg == heart_restecg(f.value_re)
        slope   == heart_slope(f.value_s)
        thal    == heart_thal(f.value_thal)
        exang   == heart_exang(f.agree)
        fbs     == heart_fbs(f.agree1)
    IN  List(<< Num(f.age_h), Num(sex), Num(cp), Num(f.trestbps), Num(f.chol),
                Num(fbs), Num(restecg), Num(f.thalach), Num(exang),
                Num(f.oldpeak), Num(slope), Num(f.ca), Num(thal) >>)

parkinson_features(f) ==
    List(<< Num(f.MDVP), Num(f.MDVPFIZ), Num(f.MDVPFLO), Num(f.MDVPJITTER),
            Num(f.MDVPJitterAbs), Num(f.MDVPRAP), Num(f.MDVPPPQ), Num(f.JitterDDP),
            Num(f.MDVPShimmer), Num(f.MDVPShimmer_dB), Num(f.Shimmer_APQ3),
            Num(f.ShimmerAPQ5), Num(f.MDVP_APQ), Num(f.ShimmerDDA),
            Num(f.NHR), Num(f.HNR), Num(f.RPDE), Num(f.DFA), Num(f.spread1),
            Num(f.spread2), Num(f.D2), Num(f.PPE) >>)

\* Lines 756-776.  columns.str.strip() leaves these names, which carry no
\* surrounding blanks, as they are.
lung_cancer_features(f) ==
    LET user_data ==
            DataFrame(<< <<"GENDER", Str(f.gender)>>,
                         <<"AGE", Num(f.age)>>,
                         <<"SMOKING", Str(f.smoking)>>,
                         <<"YELLOW_FINGERS", Str(f.yellow_fingers)>>,
                         <<"ANXIETY", Str(f.anxiety)>>,
                         <<"PEER_PRESSURE", Str(f.peer_pressure)>>,
                         <<"CHRONICDISEASE", Str(f.chronic_disease)>>,
                         <<"FATIGUE", Str(f.fatigue)>>,
                         <<"ALLERGY", Str(f.allergy)>>,
                         <<"WHEEZING", Str(f.wheezing)>>,
                         <<"ALCOHOLCONSUMING", Str(f.alcohol_consuming)>>,
                         <<"COUGHING", Str(f.coughing)>>,
                         <<"SHORTNESSOFBREATH", Str(f.shortness_of_breath)>>,
                         <<"SWALLOWINGDIFFICULTY", Str(f.swallowing_difficulty)>>,
                         <<"CHESTPAIN", Str(f.chest_pain)>> >>)
        numeric_columns ==
            {"AGE", "FATIGUE", "ALLERGY", "ALCOHOLCONSUMING", "COUGHING",
             "SHORTNESSOFBREATH"}
    IN  to_numeric(lung_replace(user_data), numeric_columns)

liver_features(f) ==
    LET Sex == liver_Sex(f.value_gender)
    IN  List(<< Num(Sex), Num(f.age_lv), Num(f.Total_Bilirubin),
                Num(f.Direct_Bilirubin), Num(f.Alkaline_Phosphotase),
                Num(f.Alamine_Aminotransferase), Num(f.Aspartate_Aminotransferase),
                Num(f.Total_Protiens), Num(f.Albumin),
                Num(f.Albumin_and_Globulin_Ratio) >>)

hepatitis_features(f) ==
    LET sex_hep == hepatitis_sex_hep(f.sex_hep)
    IN  DataFrame(<< <<"Age", Num(f.age_hep)>>,
                     <<"Sex", Num(sex_hep)>>,
                     <<"ALB", Num(f.total_bilirubin)>>,
                     <<"ALP", Num(f.direct_bilirubin)>>,
                     <<"ALT", Num(f.alkaline_phosphatase)>>,
                     <<"AST", Num(f.alamine_aminotransferase)>>,
                     <<"BIL", Num(f.aspartate_aminotransferase)>>,
                     <<"CHE", Num(f.total_proteins)>>,
                     <<"CHOL", Num(f.albumin)>>,
                     <<"CREA", Num(f.albumin_and_globulin_ratio)>>,
                     <<"GGT", Num(f.ggt_value)>>,
                     <<"PROT", Num(f.prot_value)>> >>)

jaundice_features(f) ==
    LET Sex_j == jaundice_Sex_j(f.value_j)
    IN  List(<< Num(f.age_j), Num(Sex_j), Num(f.Total_Bilirubin_j),
                Num(f.Direct_Bilirubin_j), Num(f.Alkaline_Phosphotase_j),
                Num(f.Alamine_Aminotransferase_j), Num(f.Total_Protiens_j),
                Num(f.Albumin_j) >>)

chronic_kidney_features(f) ==
    DataFrame(<< <<"age", Num(f.age_k)>>,
                 <<"bp", Num(f.bp)>>,
                 <<"sg", Num(f.sg)>>,
                 <<"al", Num(f.al)>>,
                 <<"su", Num(f.su)>>,
                 <<"rbc", Num(kidney_rbc(f.rbc))>>,
                 <<"pc", Num(kidney_pc(f.pc))>>,
                 <<"pcc", Num(kidney_pcc(f.pcc))>>,
                 <<"ba", Num(kidney_ba(f.ba))>>,
                 <<"bgr", Num(f.bgr)>>,
                 <<"bu", Num(f.bu)>>,
                 <<"sc", Num(f.sc)>>,
                 <<"sod", Num(f.sod)>>,
                 <<"pot", Num(f.pot)>>,
                 <<"hemo", Num(f.hemo)>>,
                 <<"pcv", Num(f.pcv)>>,
                 <<"wc", Num(f.wc)>>,
                 <<"rc", Num(f.rc)>>,
                 <<"htn", Num(kidney_htn(f.htn))>>,
                 <<"dm", Num(kidney_dm(f.dm))>>,
                 <<"cad", Num(kidney_cad(f.cad))>>,
                 <<"appet", Num(kidney_appet(f.appet))>>,
                 <<"pe", Num(kidney_pe(f.pe))>>,
                 <<"ane", Num(kidney_ane(f.ane))>> >>)

breast_cancer_features(f) ==
    DataFrame(<< <<"radius_mean", Num(f.radius_mean)>>,
                 <<"texture_mean", Num(f.texture_mean)>>,
                 <<"perimeter_mean", Num(f.perimeter_mean)>>,
                 <<"area_mean", Num(f.area_mean)>>,
                 <<"smoothness_mean", Num(f.smoothness_mean)>>,
                 <<"compactness_mean", Num(f.compactness_mean)>>,
                 <<"concavity_mean", Num(f.concavity_mean)>>,
                 <<"concave points_mean", Num(f.concave_points_mean)>>,
                 <<"symmetry_mean", Num(f.symmetry_mean)>>,
                 <<"fractal_dimension_mean", Num(f.fractal_dimension_mean)>>,
                 <<"radius_se", Num(f.radius_se)>>,
                 <<"texture_se", Num(f.texture_se)>>,
                 <<"perimeter_se", Num(f.perimeter_se)>>,
                 <<"area_se", Num(f.area_se)>>,
                 <<"smoothness_se", Num(f.smoothness_se)>>,
                 <<"compactness_se", Num(f.compactness_se)>>,
                 <<"concavity_se", Num(f.concavity_se)>>,
                 <<"concave points_se", Num(f.concave_points_se)>>,
                 <<"symmetry_se", Num(f.symmetry_se)>>,
                 <<"fractal_dimension_se", Num(f.fractal_dimension_se)>>,
                 <<"radius_worst", Num(f.radius_worst)>>,
                 <<"texture_worst", Num(f.texture_worst)>>,
                 <<"perimeter_worst", Num(f.perimeter_worst)>>,
                 <<"area_worst", Num(f.area_worst)>>,
                 <<"smoothness_worst", Num(f.smoothness_worst)>>,
                 <<"compactness_worst", Num(f.compactness_worst)>>,
                 <<"concavity_worst", Num(f.concavity_worst)>>,
                 <<"concave points_worst", Num(f.concave_points_worst)>>,
                 <<"symmetry_worst", Num(f.symmetry_worst)>>,
                 <<"fractal_dimension_worst", Num(f.fractal_dimension_worst)>> >>)

-----------------------------------------------------------------------------
(* The database (lines 31-61).  A database is the columns of the users     *)
(* table with its rows; a row maps the columns to values.  The column id   *)
(* is in the schema and left out of the rows: no statement reads it.       *)

\* A variant of initialize_db that gives the three columns their NULL anew.
initialize_db_reset(db) ==
    [columns |-> << "id", "username", "email", "password",
                    "fullname", "phone", "profile_image" >>,
     rows    |-> {[k \in DOMAIN row \cup {"fullname", "phone", "profile_image"} |->
                       IF k \in {"fullname", "phone", "profile_image"}
                       THEN None ELSE row[k]] : row \in db.rows}]

\* initialize_db: CREATE TABLE IF NOT EXISTS, then three ALTER TABLE ADD
\* COLUMN, each of which fails with OperationalError, which is passed over,
\* when the column exists, and gives NULL to the rows there otherwise.
initialize_db(db) ==
    LET created == IF db.columns = << >>
                   THEN [columns |-> << "id", "username", "email", "password" >>,
                         rows    |-> {}]
                   ELSE db
        add_column(d, c) ==
            IF \E i \in DOMAIN d.columns : d.columns[i] = c
            THEN d
            ELSE [columns |-> Append(d.columns, c),
                  rows    |-> {[k \in DOMAIN row \cup {c} |->
                                    IF k = c THEN None ELSE row[k]] : row \in d.rows}]
    IN  add_column(add_column(add_column(created, "fullname"), "phone"),
                   "profile_image")

-----------------------------------------------------------------------------
(* Authentication (lines 66-121).                                          *)

\* hashlib.sha256(...).hexdigest(): one digest per password, never the password.
hash_password(password) == <<"sha256", password>>

\* A variant of check_login that looks for the row and not at its password.
check_login_by_name(name, password, table) ==
    \E row \in table : row.username = name

check_login(name, password, table) ==
    \E row \in table : row.username = name /\ row.password = hash_password(password)

\* re.match(r"[^@]+@[^@]+\.[^@]+", email): a prefix of the text is made of
\* one or more characters other than "@", an "@", one or more characters
\* other than "@", a dot, and a character other than "@".
email_pattern(email) ==
    \E at \in DOMAIN email, dot \in DOMAIN email :
        /\ 1 < at
        /\ email[at] = "@"
        /\ \A i \in 1 .. (at - 1) : email[i] # "@"
        /\ at + 1 < dot
        /\ email[dot] = "."
        /\ \A i \in (at + 1) .. (dot - 1) : email[i] # "@"
        /\ dot < Len(email)
        /\ email[dot + 1] # "@"

\* A variant of register_user whose table has no UNIQUE constraint on email.
register_user_by_name(name, email, password, table) ==
    IF ~email_pattern(email)
    THEN [result |-> "Invalid email format", table |-> table]
    ELSE IF Len(password) < 6
    THEN [result |-> "Password must be at least 6 characters", table |-> table]
    ELSE IF \E row \in table : row.username = name
    THEN [result |-> "Username or email already exists", table |-> table]
    ELSE [result |-> "Registration successful",
          table  |-> table \cup {[username |-> name, email |-> email,
                                  password |-> hash_password(password),
                                  fullname |-> None, phone |-> None,
                                  profile_image |-> None]}]

\* A variant of register_user that looks at the password first.
register_user_password_first(name, email, password, table) ==
    IF Len(password) < 6
    THEN [result |-> "Password must be at least 6 characters", table |-> table]
    ELSE IF ~email_pattern(email)
    THEN [result |-> "Invalid email format", table |-> table]
    ELSE IF \E row \in table : row.username = name \/ row.email = email
    THEN [result |-> "Username or email already exists", table |-> table]
    ELSE [result |-> "Registration successful",
          table  |-> table \cup {[username |-> name, email |-> email,
                                  password |-> hash_password(password),
                                  fullname |-> None, phone |-> None,
                                  profile_image |-> None]}]

\* register_user, lines 79-94: the message returned and the table left.
\* The INSERT violates a UNIQUE constraint, and raises IntegrityError, when
\* a row has the username or the email.
register_user(name, email, password, table) ==
    IF ~email_pattern(email)
    THEN [result |-> "Invalid email format", table |-> table]
    ELSE IF Len(password) < 6
    THEN [result |-> "Password must be at least 6 characters", table |-> table]
    ELSE IF \E row \in table : row.username = name \/ row.email = email
    THEN [result |-> "Username or email already exists", table |-> table]
    ELSE [result |-> "Registration successful",
          table  |-> table \cup {[username |-> name, email |-> email,
                                  password |-> hash_password(password),
                                  fullname |-> None, phone |-> None,
                                  profile_image |-> None]}]

\* A variant of update_user_profile whose UPDATE has no WHERE clause.
update_user_profile_all(name, fullname, phone, profile_image_bytes, table) ==
    {[row EXCEPT !.fullname = fullname, !.phone = phone,
                 !.profile_image = profile_image_bytes] : row \in table}

\* update_user_profile, lines 112-121.
update_user_profile(name, fullname, phone, profile_image_bytes, table) ==
    {IF row.username = name
     THEN [row EXCEPT !.fullname = fullname, !.phone = phone,
                      !.profile_image = profile_image_bytes]
     ELSE row : row \in table}

\* The user names and passwords typed into the login form.
Usernames == {"alice", "bob"}

Passwords == {"secret1", "letmein"}

\* The texts typed into the signup form and into the profile page.
Emails == { <<"a", "@", "x", ".", "y">>, <<"b", "@", "x", ".", "y">>, <<"b", "@", "x">> }

\* What the profile page holds when "Save changes" is pressed: the two text
\* inputs and the file uploaded, None if there is none.
ProfileInputs == [fullname : {"", "Alice A."}, phone : {"555"}, uploaded : {None, "new.png"}]

-----------------------------------------------------------------------------
(* Model loading.                                                          *)

\* The joblib.load statements of lines 320-354, in program order.
model_loading ==
    << [var |-> "diabetes_model",        file |-> "models/diabetes_model.sav"],
       [var |-> "heart_model",           file |-> "models/heart_disease_model.sav"],
       [var |-> "parkinson_model",       file |-> "models/parkinsons_model.sav"],
       [var |-> "lung_cancer_model",     file |-> "models/lung_cancer_model.sav"],
       [var |-> "breast_cancer_model",   file |-> "models/breast_cancer.sav"],
       [var |-> "chronic_disease_model", file |-> "models/chronic_model.sav"],
       [var |-> "hepatitis_model",       file |-> "models/hepititisc_model.sav"],
       [var |-> "liver_model",           file |-> "models/liver_model.sav"],
       [var |-> "lung_cancer_model",     file |-> "models/lung_cancer_model.sav"],
       [var |-> "diabetes_model",        file |-> "models/diabetes_model.sav"],
       [var |-> "heart_model",           file |-> "models/heart_disease_model.sav"],
       [var |-> "parkinson_model",       file |-> "models/parkinsons_model.sav"],
       [var |-> "lung_cancer_model",     file |-> "models/lung_cancer_model.sav"],
       [var |-> "breast_cancer_model",   file |-> "models/breast_cancer.sav"],
       [var |-> "chronic_disease_model", file |-> "models/chronic_model.sav"],
       [var |-> "hepatitis_model",       file |-> "models/hepititisc_model.sav"],
       [var |-> "liver_model",           file |-> "models/liver_model.sav"] >>

\* The artifact of the symptom model (line 367).
xgboost_model == "model/xgboost_model.json"

ModelFiles == {model_loading[i].file : i \in DOMAIN model_loading} \cup {xgboost_model}

ClassifierVars == {model_loading[i].var : i \in DOMAIN model_loading} \cup {"disease_model"}

\* The first load statement whose file is missing (joblib.load raises there and
\* the run ends), or 0.
FirstMissing ==
    LET bad == {i \in DOMAIN model_loading : model_loading[i].file \notin artifacts}
    IN  IF bad = {} THEN 0 ELSE CHOOSE i \in bad : \A j \in bad : i <= j

\* How often the first n load statements assign each variable.
Assignments ==
    [n \in 0 .. Len(model_loading) |->
        [v \in ClassifierVars |->
            Cardinality({i \in 1 .. n : model_loading[i].var = v})]]

\* How often the module-level statements of one run assign each variable:
\* every load statement before the first failing one assigns its variable.
load_models ==
    LET done == IF FirstMissing = 0 THEN Len(model_loading) ELSE FirstMissing - 1
    IN  Assignments[done]

-----------------------------------------------------------------------------
(* The classifiers are opaque: an invocation returns any label or raises.  *)

Raised == [raised |-> TRUE, label |-> NaN, prob |-> 0]

Returned(labels) == {[raised |-> FALSE, label |-> l, prob |-> 0] : l \in labels}

\* The labels of a classifier trained on numeric classes, and of the lung
\* cancer classifier, whose classes are strings.
NumericOutcomes == Returned({Num(0), Num(1), Num(2)}) \cup {Raised}

StringOutcomes == Returned({Str("YES"), Str("NO"), Num(1)}) \cup {Raised}

\* The disease metadata consumed by the symptom page: per disease a
\* description and up to four precautions.
DiseaseMeta ==
    [d \in {"Fungal infection", "Allergy", "GERD"} |->
        CASE d = "Fungal infection" ->
               [description |-> "Fungal infection: a skin disease caused by a fungus.",
                precautions |-> <<"bath twice", "use detol or neem in bathing water",
                                  "keep infected area dry", "use clean cloths">>]
          [] d = "Allergy" ->
               [description |-> "Allergy: an immune response to a foreign substance.",
                precautions |-> <<"apply calamine", "use ice to compress itching">>]
          [] d = "GERD" ->
               [description |-> "GERD: acid reflux from the stomach.",
                precautions |-> << >>]]

\* The labels the symptom model may predict: the diseases of the metadata
\* and one that the metadata does not hold.
Diseases == DOMAIN DiseaseMeta \cup {"Dengue"}

\* The raw probabilities the symptom model may report, in thousandths.
RawProbabilities == {-250, 250, 1000, 1500}

\* DiseaseModel.predict returns a disease name and its probability.
SymptomOutcomes ==
    {[raised |-> FALSE, label |-> Str(d), prob |-> p] : d \in Diseases, p \in RawProbabilities}
        \cup {Raised}

\* DiseaseModel.describe_predicted_disease: the description of the disease
\* predicted; a disease the metadata does not hold is an UnresolvedDiseaseError.
describe_predicted_disease(label) ==
    IF label \in DOMAIN DiseaseMeta
    THEN [raised |-> FALSE, text |-> DiseaseMeta[label].description]
    ELSE [raised |-> TRUE, text |-> "UnresolvedDiseaseError"]

\* DiseaseModel.predicted_disease_precautions: the list of its precautions.
predicted_disease_precautions(label) == DiseaseMeta[label].precautions

\* What the classifier of a page may answer.
OutcomesOf(page) ==
    IF page = "Disease Prediction" THEN SymptomOutcomes
    ELSE IF page = "Lung Cancer Prediction" THEN StringOutcomes
    ELSE NumericOutcomes

\* A variant of Invoke that calls the classifier again when it has raised.
Invoke_retry(handle, features, outcome) ==
    IF outcome.raised
    THEN << [handle |-> handle, features |-> features, outcome |-> outcome],
            [handle |-> handle, features |-> features, outcome |-> outcome] >>
    ELSE << [handle |-> handle, features |-> features, outcome |-> outcome] >>

\* One classifier invocation: model.predict(features).
Invoke(handle, features, outcome) ==
    << [handle |-> handle, features |-> features, outcome |-> outcome] >>

-----------------------------------------------------------------------------
(* The result interpretation of the pages: the image shown and the message *)
(* (the text that follows the user's name).                                *)

Finding(image, message) == [image |-> image, message |-> message]

\* Lines 447-454.
diabetes_dig(prediction) ==
    IF prediction = Num(1)
    THEN Finding("positive.jpg", "We are really sorry to say but it seems like you are Diabetic.")
    ELSE Finding("negative.jpg", "Congratulations, You are not diabetic")

\* Lines 569-576.
heart_dig(prediction) ==
    IF prediction = Num(1)
    THEN Finding("positive.jpg", "We are really sorry to say but it seems like you have Heart Disease.")
    ELSE Finding("negative.jpg", "Congratulations, You don't have Heart Disease.")

\* A variant of parkinson_dig that takes every label but 0 for the positive class.
parkinson_dig_nonzero(prediction) ==
    IF prediction # Num(0)
    THEN Finding("positive.jpg", "we are really sorry to say but it seems like you have Parkinson disease")
    ELSE Finding("negative.jpg", "Congratulation , You don't have Parkinson disease")

\* Lines 701-708.
parkinson_dig(prediction) ==
    IF prediction = Num(1)
    THEN Finding("positive.jpg", "we are really sorry to say but it seems like you have Parkinson disease")
    ELSE Finding("negative.jpg", "Congratulation , You don't have Parkinson disease")

\* A variant of cancer_result that takes every label but 'NO' for the positive class.
cancer_result_not_no(prediction) ==
    IF prediction # Str("NO")
    THEN Finding("positive.jpg", "The model predicts that there is a risk of Lung Cancer.")
    ELSE Finding("negative.jpg", "The model predicts no significant risk of Lung Cancer.")

\* Lines 778-785.
cancer_result(prediction) ==
    IF prediction = Str("YES")
    THEN Finding("positive.jpg", "The model predicts that there is a risk of Lung Cancer.")
    ELSE Finding("negative.jpg", "The model predicts no significant risk of Lung Cancer.")

\* Lines 840-847.
liver_dig(prediction) ==
    IF prediction = Num(1)
    THEN Finding("positive.jpg", "We are really sorry to say, but it seems like you have liver disease.")
    ELSE Finding("negative.jpg", "Congratulations, you don't have liver disease.")

\* Lines 912-919.
hepatitis_result(prediction) ==
    IF prediction = Num(1)
    THEN Finding("positive.jpg", "We are really sorry to say but it seems like you have Hepatitis.")
    ELSE Finding("negative.jpg", "Congratulations, you do not have Hepatitis.")

\* Lines 957-964.
jaundice_dig(prediction) ==
    IF prediction = Num(1)
    THEN Finding("positive.jpg", "We are really sorry to say but it seems like you have Jaundice.")
    ELSE Finding("negative.jpg", "Congratulations, You don't have Jaundice.")

\* Lines 1068-1075.
kidney_prediction_dig(prediction) ==
    IF prediction = Num(1)
    THEN Finding("positive.jpg", "we are really sorry to say but it seems like you have kidney disease.")
    ELSE Finding("negative.jpg", "Congratulations, You don't have kidney disease.")

\* Lines 1168-1175.
breast_cancer_result(prediction) ==
    IF prediction = Num(1)
    THEN Finding("positive.jpg", "The model predicts that you have Breast Cancer.")
    ELSE Finding("negative.jpg", "The model predicts that you don't have Breast Cancer.")

-----------------------------------------------------------------------------
(* The prediction pages.  A page is given the values f of its widgets, the *)
(* key btn of the button pressed in this run ("" for none) and the outcome *)
(* of the classifier invocation, should the page make one.  It yields the  *)
(* invocations made and what it wrote below its form.                      *)

Output(kind, image, message, percent) ==
    [kind |-> kind, image |-> image, message |-> message, percent |-> percent,
     disease |-> "", description |-> "", precautions |-> << >>]

\* What the symptom page has written when its run ends: the disease and the
\* percentage of the headline, the description, the precautions listed, and
\* the exception that ended the run early, if one did.
Diagnosis(kind, message, disease, percent, description, precautions) ==
    [kind |-> kind, image |-> "", message |-> message, percent |-> percent,
     disease |-> disease, description |-> description, precautions |-> precautions]

\* f'{prob*100:.2f}': the percentage with two decimals, held in hundredths of
\* a percent.  A probability held in thousandths has no third decimal to round.
percent_2f(prob) == (prob * 100) \div 10

\* A variant of symptom_result that answers a disease without metadata with
\* an empty description and no precautions.
symptom_result_default(outcome) ==
    LET disease == outcome.label.s
        percent == percent_2f(outcome.prob)
        text    == describe_predicted_disease(disease)
    IN  IF text.raised
        THEN Diagnosis("diagnosis", "", disease, percent, "", << >>)
        ELSE LET precautions == predicted_disease_precautions(disease)
                 listed == SubSeq(precautions, 1, IF Len(precautions) < 4
                                                  THEN Len(precautions) ELSE 4)
             IN  IF Len(precautions) < 4
                 THEN Diagnosis("exception", "IndexError", disease, percent,
                                text.text, listed)
                 ELSE Diagnosis("diagnosis", "", disease, percent, text.text, listed)

\* Lines 375-384, once the classifier has answered.  The headline is written
\* first; the description and the precautions follow; range(4) indexes four
\* precautions whatever the length of the list.
symptom_result(outcome) ==
    LET disease == outcome.label.s
        percent == percent_2f(outcome.prob)
        text    == describe_predicted_disease(disease)
    IN  IF text.raised
        THEN Diagnosis("exception", text.text, disease, percent, "", << >>)
        ELSE LET precautions == predicted_disease_precautions(disease)
                 listed == SubSeq(precautions, 1, IF Len(precautions) < 4
                                                  THEN Len(precautions) ELSE 4)
             IN  IF Len(precautions) < 4
                 THEN Diagnosis("exception", "IndexError", disease, percent,
                                text.text, listed)
                 ELSE Diagnosis("diagnosis", "", disease, percent, text.text, listed)

\* The form was rendered and its button was not pressed.
NotPressed == [calls |-> << >>, form_shown |-> TRUE, out |-> Output("form", "", "", 0)]

\* A variant of Predicted in which a page gives up once the classifier of
\* another page has raised.
Predicted_once_failed(handle, features, outcome, finding) ==
    IF failed \notin {"", handle}
    THEN [calls |-> << >>, form_shown |-> TRUE,
          out |-> Output("exception", "", "Exception", 0)]
    ELSE [calls      |-> Invoke(handle, features, outcome),
          form_shown |-> TRUE,
          out        |-> IF outcome.raised
                         THEN Output("exception", "", "Exception", 0)
                         ELSE Output("finding", finding.image, finding.message, 0)]

\* The body of "if st.button(...)" of a binary page: one invocation; an
\* exception it raises ends the run and Streamlit shows it.
Predicted(handle, features, outcome, finding) ==
    [calls      |-> Invoke(handle, features, outcome),
     form_shown |-> TRUE,
     out        |-> IF outcome.raised
                    THEN Output("exception", "", "Exception", 0)
                    ELSE Output("finding", finding.image, finding.message, 0)]

\* A variant of disease_prediction_page that turns an empty selection down.
disease_prediction_page_nonempty(f, btn, outcome) ==
    IF xgboost_model \notin artifacts
    THEN [calls |-> << >>, form_shown |-> FALSE,
          out |-> Output("exception", "", "XGBoostError", 0)]
    ELSE IF btn = "disease_predict"
         THEN IF f.symptoms = {}
              THEN [calls |-> << >>, form_shown |-> TRUE,
                    out |-> Output("error", "", "Select a symptom", 0)]
              ELSE [calls      |-> Invoke("disease_model",
                                          List(prepare_symptoms_array(f.symptoms)), outcome),
                    form_shown |-> TRUE,
                    out        |-> IF outcome.raised
                                   THEN Output("exception", "", "Exception", 0)
                                   ELSE symptom_result(outcome)]
         ELSE [calls |-> << >>, form_shown |-> TRUE, out |-> Output("form", "", "", 0)]

\* Lines 364-384.  DiseaseModel is loaded at every rendering of the page; a
\* missing artifact ends the run before the form is drawn.
disease_prediction_page(f, btn, outcome) ==
    IF xgboost_model \notin artifacts
    THEN [calls |-> << >>, form_shown |-> FALSE,
          out |-> Output("exception", "", "XGBoostError", 0)]
    ELSE LET X == prepare_symptoms_array(f.symptoms)
         IN  IF btn = "disease_predict"
             THEN [calls      |-> Invoke("disease_model", List(X), outcome),
                   form_shown |-> TRUE,
                   out        |-> IF outcome.raised
                                  THEN Output("exception", "", "Exception", 0)
                                  ELSE symptom_result(outcome)]
             ELSE NotPressed

diabetes_page(f, btn, outcome) ==
    IF btn = "diabetes_btn"
    THEN Predicted("diabetes_model", diabetes_features(f), outcome,
                   diabetes_dig(outcome.label))
    ELSE NotPressed

heart_page(f, btn, outcome) ==
    IF btn = "heart_btn"
    THEN Predicted("heart_model", heart_features(f), outcome,
                   heart_dig(outcome.label))
    ELSE NotPressed

parkinson_page(f, btn, outcome) ==
    IF btn = "parkinson_btn"
    THEN Predicted("parkinson_model", parkinson_features(f), outcome,
                   parkinson_dig(outcome.label))
    ELSE NotPressed

lung_cancer_page(f, btn, outcome) ==
    IF btn = "lung_btn"
    THEN Predicted("lung_cancer_model", lung_cancer_features(f), outcome,
                   cancer_result(outcome.label))
    ELSE NotPressed

liver_page(f, btn, outcome) ==
    IF btn = "liver_btn"
    THEN Predicted("liver_model", liver_features(f), outcome,
                   liver_dig(outcome.label))
    ELSE NotPressed

hepatitis_page(f, btn, outcome) ==
    IF btn = "hep_btn"
    THEN Predicted("hepatitis_model", hepatitis_features(f), outcome,
                   hepatitis_result(outcome.label))
    ELSE NotPressed

\* A variant of jaundice_page that finds a classifier under the name
\* jaundice_model and interprets its answer.
jaundice_page_loaded(f, btn, outcome) ==
    IF btn = "jaundice_btn"
    THEN Predicted("jaundice_model", jaundice_features(f), outcome,
                   jaundice_dig(outcome.label))
    ELSE NotPressed

\* Lines 954-967.  No statement assigns jaundice_model: evaluating the name
\* raises NameError before the features are collected and before any
\* invocation, and the except clause writes its text after the message.
jaundice_page(f, btn, outcome) ==
    IF btn = "jaundice_btn"
    THEN [calls |-> << >>, form_shown |-> TRUE,
          out |-> Output("error", "",
                         "Jaundice model not available or an error occurred: name 'jaundice_model' is not defined",
                         0)]
    ELSE NotPressed

chronic_kidney_page(f, btn, outcome) ==
    IF btn = "kidney_btn"
    THEN Predicted("chronic_disease_model", chronic_kidney_features(f), outcome,
                   kidney_prediction_dig(outcome.label))
    ELSE NotPressed

breast_cancer_page(f, btn, outcome) ==
    IF btn = "breast_btn"
    THEN Predicted("breast_cancer_model", breast_cancer_features(f), outcome,
                   breast_cancer_result(outcome.label))
    ELSE NotPressed

\* The dispatcher, lines 1179-1197: an if/elif chain with no else branch.
render_disease_pages(sel, f, btn, outcome) ==
    IF sel = "Disease Prediction" THEN disease_prediction_page(f, btn, outcome)
    ELSE IF sel = "Diabetes Prediction" THEN diabetes_page(f, btn, outcome)
    ELSE IF sel = "Heart disease Prediction" THEN heart_page(f, btn, outcome)
    ELSE IF sel = "Parkison Prediction" THEN parkinson_page(f, btn, outcome)
    ELSE IF sel = "Liver prediction" THEN liver_page(f, btn, outcome)
    ELSE IF sel = "Hepatitis prediction" THEN hepatitis_page(f, btn, outcome)
    ELSE IF sel = "Lung Cancer Prediction" THEN lung_cancer_page(f, btn, outcome)
    ELSE IF sel = "Chronic Kidney prediction" THEN chronic_kidney_page(f, btn, outcome)
    ELSE IF sel = "Breast Cancer Prediction" THEN breast_cancer_page(f, btn, outcome)
    ELSE [calls |-> << >>, form_shown |-> FALSE, out |-> Output("nothing", "", "", 0)]

\* The strings the branches of the dispatcher compare the key with, in the
\* order of the chain.
branch_keys ==
    << "Disease Prediction", "Diabetes Prediction", "Heart disease Prediction",
       "Parkison Prediction", "Liver prediction", "Hepatitis prediction",
       "Lung Cancer Prediction", "Chronic Kidney prediction",
       "Breast Cancer Prediction" >>

\* A variant of menu_options that also offers the jaundice page.
menu_options_with_jaundice ==
    << "Disease Prediction", "Diabetes Prediction", "Heart disease Prediction",
       "Parkison Prediction", "Liver prediction", "Hepatitis prediction",
       "Jaundice prediction", "Lung Cancer Prediction",
       "Chronic Kidney prediction", "Breast Cancer Prediction" >>

\* The options of the option_menu, lines 1240-1253.
menu_options ==
    << "Disease Prediction", "Diabetes Prediction", "Heart disease Prediction",
       "Parkison Prediction", "Liver prediction", "Hepatitis prediction",
       "Lung Cancer Prediction", "Chronic Kidney prediction",
       "Breast Cancer Prediction" >>

\* The options of the sidebar radio, line 1231.
radio_options == << "Home", "Disease Predictions", "Profile", "Logout" >>

\* The widgets a page draws, and the key of its result button.
Widgets(page) ==
    CASE page = "Disease Prediction"        -> disease_prediction_widgets
      [] page = "Diabetes Prediction"       -> diabetes_widgets
      [] page = "Heart disease Prediction"  -> heart_widgets
      [] page = "Parkison Prediction"       -> parkinson_widgets
      [] page = "Liver prediction"          -> liver_widgets
      [] page = "Hepatitis prediction"      -> hepatitis_widgets
      [] page = "Lung Cancer Prediction"    -> lung_cancer_widgets
      [] page = "Chronic Kidney prediction" -> chronic_kidney_widgets
      [] page = "Breast Cancer Prediction"  -> breast_cancer_widgets
      [] OTHER                              -> << >>

Button(page) ==
    CASE page = "Disease Prediction"        -> "disease_predict"
      [] page = "Diabetes Prediction"       -> "diabetes_btn"
      [] page = "Heart disease Prediction"  -> "heart_btn"
      [] page = "Parkison Prediction"       -> "parkinson_btn"
      [] page = "Liver prediction"          -> "liver_btn"
      [] page = "Hepatitis prediction"      -> "hep_btn"
      [] page = "Lung Cancer Prediction"    -> "lung_btn"
      [] page = "Chronic Kidney prediction" -> "kidney_btn"
      [] page = "Breast Cancer Prediction"  -> "breast_btn"
      [] OTHER                              -> ""

\* The variable whose classifier the page invokes.
Classifier(page) ==
    CASE page = "Disease Prediction"        -> "disease_model"
      [] page = "Diabetes Prediction"       -> "diabetes_model"
      [] page = "Heart disease Prediction"  -> "heart_model"
      [] page = "Parkison Prediction"       -> "parkinson_model"
      [] page = "Liver prediction"          -> "liver_model"
      [] page = "Hepatitis prediction"      -> "hepatitis_model"
      [] page = "Lung Cancer Prediction"    -> "lung_cancer_model"
      [] page = "Chronic Kidney prediction" -> "chronic_disease_model"
      [] page = "Breast Cancer Prediction"  -> "breast_cancer_model"
      [] OTHER                              -> ""

\* The values a page's widgets hold when the page is first drawn.
FormOf(W) ==
    [k \in {W[i].key : i \in DOMAIN W} |->
        W[CHOOSE i \in DOMAIN W : W[i].key = k].init]

InitialForms == [page \in Range(menu_options) |-> FormOf(Widgets(page))]

InitialForm(page) ==
    IF page \in DOMAIN InitialForms THEN InitialForms[page] ELSE << >>

\* No prediction page is drawn: Streamlit drops the values of its widgets.
NoForm == << >>

\* The widgets of the page whose value differs from its initial value.
Edited(page, f) ==
    LET W == Widgets(page) IN {i \in DOMAIN W : f[W[i].key] # W[i].init}

-----------------------------------------------------------------------------
(* The chatbot.  A text the user types is a sequence of characters.        *)

whitespace == {" ", "\t", "\n"}

\* str.strip(): the text without its leading and trailing whitespace.
strip(text) ==
    LET kept == {i \in DOMAIN text : text[i] \notin whitespace}
    IN  IF kept = {} THEN << >>
        ELSE SubSeq(text, CHOOSE i \in kept : \A j \in kept : i <= j,
                          CHOOSE i \in kept : \A j \in kept : j <= i)

\* A variant of lower that leaves the text as it is.
lower_not(text) == text

\* str.lower(), on the letters of the alphabet.
lower(text) ==
    LET upper == << "A", "B", "C", "D", "E", "F", "G", "H", "I", "J", "K", "L", "M",
                    "N", "O", "P", "Q", "R", "S", "T", "U", "V", "W", "X", "Y", "Z" >>
        small == << "a", "b", "c", "d", "e", "f", "g", "h", "i", "j", "k", "l", "m",
                    "n", "o", "p", "q", "r", "s", "t", "u", "v", "w", "x", "y", "z" >>
    IN  [i \in DOMAIN text |->
            IF \E n \in DOMAIN upper : upper[n] = text[i]
            THEN small[CHOOSE n \in DOMAIN upper : upper[n] = text[i]]
            ELSE text[i]]

\* Lines 281-302: the dictionary, each text by its opening words.
disease_info ==
        <<"d", "i", "a", "b", "e", "t", "e", "s">> :>
            "Diabetes is a long-term metabolic disorder ..." @@
        <<"h", "e", "a", "r", "t", " ", "d", "i", "s", "e", "a", "s", "e">> :>
            "Heart disease refers to a group of conditions ..." @@
        <<"p", "a", "r", "k", "i", "n", "s", "o", "n">> :>
            "Parkinson's disease is a progressive neurological disorder ..." @@
        <<"l", "i", "v", "e", "r", " ", "d", "i", "s", "e", "a", "s", "e">> :>
            "Liver disease includes various conditions ..." @@
        <<"c", "h", "r", "o", "n", "i", "c", " ", "k", "i", "d", "n", "e", "y", " ", "d", "i", "s", "e", "a", "s", "e">> :>
            "Chronic kidney disease (CKD) is the gradual loss of kidney function ..." @@
        <<"b", "r", "e", "a", "s", "t", " ", "c", "a", "n", "c", "e", "r">> :>
            "Breast cancer occurs when abnormal cells in the breast multiply ..." @@
        <<"l", "u", "n", "g", " ", "c", "a", "n", "c", "e", "r">> :>
            "Lung cancer is a disease where abnormal cells grow quickly ..." @@
        <<"h", "e", "p", "a", "t", "i", "t", "i", "s">> :>
            "Hepatitis refers to inflammation of the liver ..."

\* simple_ai_bot, lines 304-317.  The answer is the concatenation of the
\* parts of the sequence returned.
simple_ai_bot(disease, question) ==
    LET key  == strip(lower(disease))
        base == IF key \in DOMAIN disease_info
                THEN disease_info[key]
                ELSE "I don't have information about this specific disease, ..."
    IN  IF strip(question) # << >>
        THEN << base, " ", "Here is a simple answer to your question: ", question >>
        ELSE << base >>

\* The texts typed into the inputs of the chatbot.
Query(disease, question) == [disease |-> disease, question |-> question]

DiseaseQueries ==
    { << >>, << " ", " " >>,
      <<" ", "D", "i", "a", "b", "e", "t", "e", "s", " ">>,
      <<"H", "E", "P", "A", "T", "I", "T", "I", "S">>,
      <<"l", "u", "n", "g", " ", " ", "c", "a", "n", "c", "e", "r">>,
      <<"f", "l", "u">> }

FollowupQueries == { << >>, << " " >>, <<" ", "w", "h", "y", "?", " ">> }

NoQuery == Query(<< >>, << >>)

\* The chatbot section is not on the page.
NoChat == [kind |-> "none", text |-> << >>, query |-> NoQuery]

\* Lines 1258-1269: the two text inputs and the "Ask AI" button.
chatbot(btn, query) ==
    IF btn = "ai_button"
    THEN IF strip(query.disease) = << >>
         THEN [kind |-> "warning", text |-> << "Please enter a disease name." >>,
               query |-> query]
         ELSE [kind |-> "response", query |-> query,
               text |-> simple_ai_bot(query.disease, query.question)]
    ELSE [kind |-> "form", text |-> << >>, query |-> query]

-----------------------------------------------------------------------------
(* One run of the script.                                                  *)

Display(page, form_shown, out) ==
    [page |-> page, form_shown |-> form_shown, kind |-> out.kind,
     image |-> out.image, message |-> out.message, percent |-> out.percent,
     disease |-> out.disease, description |-> out.description,
     precautions |-> out.precautions]

\* get_user_details, lines 96-110: the rows of the user: one (username is
\* UNIQUE), or none where the function returns None.
get_user_details(name, table) == {row \in table : row.username = name}

\* Lines 1221-1228: the photo of the logged-in user goes to the sidebar; an
\* image st.sidebar.image cannot decode raises, and the except clause passes.
sidebar_photo(name, table) ==
    LET found == get_user_details(name, table)
    IN  IF found = {} THEN None
        ELSE LET user == CHOOSE row \in found : TRUE
             IN  IF user.profile_image = None THEN None
                 ELSE IF user.profile_image = "broken" THEN None
                 ELSE user.profile_image

\* The part of main() that follows the login check, for the page drawn.
logged_in_page(page, shown, name, table, btn, query) ==
    [calls  |-> shown.calls,
     photo  |-> sidebar_photo(name, table),
     chat   |-> IF shown.out.kind = "exception" THEN NoChat ELSE chatbot(btn, query),
     screen |-> Display(page, shown.form_shown, shown.out)]

\* A page that draws no form and invokes no classifier.
Plain(kind, message) ==
    [calls |-> << >>, form_shown |-> FALSE, out |-> Output(kind, "", message, 0)]

\* A variant of main that serves the prediction pages to one user only.
main_by_user(li, name, table, ch, sel, f, btn, outcome, query) ==
    IF ~li
    THEN [calls |-> << >>, photo |-> None, chat |-> NoChat,
          screen |-> Display("login", FALSE, Output("form", "", "", 0))]
    ELSE IF ch = "Disease Predictions"
    THEN logged_in_page(sel, render_disease_pages(sel, f, IF name = "alice" THEN btn ELSE "",
                                                  outcome), name, table, btn, query)
    ELSE logged_in_page(ch, Plain("form", ""), name, table, btn, query)

\* A variant of main that draws the chatbot before it looks at the session.
main_open_chat(li, name, table, ch, sel, f, btn, outcome, query) ==
    logged_in_page(IF ~li THEN "login" ELSE IF ch = "Disease Predictions" THEN sel ELSE ch,
                   IF li /\ ch = "Disease Predictions"
                   THEN render_disease_pages(sel, f, btn, outcome)
                   ELSE Plain("form", ""),
                   IF li THEN name ELSE None, table, btn, query)

\* main(), lines 1205-1281, for the session, the users table and the widget
\* values given.  The handlers of the login form and of Logout change the
\* session: they are in the actions Login and Choose.  The chatbot section
\* follows the page of every choice (an exception in the page ends the run
\* before it); the "elif choice == 'Profile'" of line 1273 continues the
\* "if st.button('Ask AI')" of line 1264, so the profile page is drawn only
\* in a run in which that button is not pressed.
main(li, name, table, ch, sel, f, btn, outcome, query) ==
    IF ~li
    THEN [calls |-> << >>, photo |-> None, chat |-> NoChat,
          screen |-> Display("login", FALSE, Output("form", "", "", 0))]
    ELSE logged_in_page(
             IF ch = "Disease Predictions" THEN sel ELSE ch,
             IF ch = "Disease Predictions" THEN render_disease_pages(sel, f, btn, outcome)
             ELSE IF ch = "Profile" /\ btn = "ai_button" THEN Plain("nothing", "")
             ELSE IF ch = "Profile" /\ get_user_details(name, table) = {}
             THEN Plain("error", "Unable to load profile.")
             ELSE Plain("form", ""),
             name, table, btn, query)

\* The database as the state holds it.
DB == [columns |-> columns, rows |-> users]

\* The whole script on the database given: the module-level statements,
\* initialize_db first, then main().  A missing artifact ends the run at
\* its joblib.load, before main() is reached.
\* A run that reached the end of the script: the database d as
\* initialize_db left it, the classifiers l loaded, and what main() did.
Completed(d, l, m) ==
    [columns |-> d.columns, users |-> d.rows,
     loads |-> l, calls |-> m.calls, photo |-> m.photo, chat |-> m.chat,
     screen |-> m.screen]

Script(db, li, name, ch, sel, f, btn, outcome, query) ==
    LET d == initialize_db(db)
    IN  IF FirstMissing # 0
        THEN [columns |-> d.columns,
              users   |-> d.rows,
              loads   |-> load_models,
              calls   |-> << >>,
              photo   |-> None,
              chat    |-> NoChat,
              screen  |-> Display("crash", FALSE,
                                  Output("exception", "", "FileNotFoundError", 0))]
        ELSE LET m  == main(li, name, d.rows, ch, sel, f, btn, outcome, query)
                 \* line 367: the page itself loads the symptom model
                 l  == IF li /\ ch = "Disease Predictions" /\ sel = "Disease Prediction"
                          /\ xgboost_model \in artifacts
                       THEN [load_models EXCEPT !["disease_model"] = 1]
                       ELSE load_models
             IN  Completed(d, l, m)

\* The form the next run finds: the widgets keep their values while drawn.
Kept(d, f) == IF d.form_shown THEN f ELSE NoForm

-----------------------------------------------------------------------------
(* The state when the server process has started and no run has happened.  *)

InitialUsers ==
    { [username |-> "alice", email |-> <<"a", "@", "x", ".", "y">>,
       password |-> hash_password("secret1"),
       fullname |-> None, phone |-> None, profile_image |-> None] }

Init ==
    /\ artifacts \in {S \in SUBSET ModelFiles : Cardinality(ModelFiles \ S) <= MaxMissing}
    /\ columns = initialize_db([columns |-> << >>, rows |-> {}]).columns
    /\ users = InitialUsers
    /\ logged_in = FALSE
    /\ username = None
    /\ choice = "Home"
    /\ selected = menu_options[1]
    /\ form = NoForm
    /\ loads = [v \in ClassifierVars |-> 0]
    /\ pressed = ""
    /\ calls = << >>
    /\ screen = Display("none", FALSE, Output("nothing", "", "", 0))
    /\ photo = None
    /\ chat = NoChat
    /\ failed = ""

\* The sidebar is on the page: the last run reached the logged-in part of main().
SidebarShown == screen.page \notin {"none", "crash", "login"}

-----------------------------------------------------------------------------
(* The interactions.  Each ends with the script run it triggers.           *)

\* What a run r of the script leaves behind: the database, the classifiers
\* loaded, the invocations made, and what is on the screen.
Ran(r) ==
    /\ loads' = r.loads
    /\ calls' = r.calls
    /\ screen' = r.screen
    /\ photo' = r.photo
    /\ chat' = r.chat
    /\ columns' = r.columns
    /\ users' = r.users

\* The browser (re)loads the page: a run with no widget changed.
Rerun ==
    LET r == Script(DB, logged_in, username, choice, selected, form, "", Raised, chat.query)
    IN  /\ Ran(r)
        /\ form' = Kept(r.screen, form)
        /\ pressed' = ""
        /\ UNCHANGED <<artifacts, logged_in, username, choice, selected, failed>>

\* A variant of Login that names the session after a row of the table.
Login_as_registered(name, password) ==
    /\ screen.page = "login"
    /\ LET d == initialize_db(DB)
       IN  IF check_login(name, password, d.rows)
           THEN LET r == Script(d, TRUE, name, "Home", menu_options[1],
                                NoForm, "", Raised, NoQuery)
                IN  /\ logged_in' = TRUE
                    /\ username' = (CHOOSE row \in d.rows : TRUE).username
                    /\ Ran(r)
                    /\ pressed' = ""
           ELSE /\ loads' = load_models
                /\ calls' = << >>
                /\ screen' = Display("login", FALSE,
                                     Output("error", "", "Invalid credentials", 0))
                /\ photo' = None
                /\ chat' = NoChat
                /\ columns' = d.columns
                /\ users' = d.rows
                /\ pressed' = "Login"
                /\ UNCHANGED <<logged_in, username>>
    /\ UNCHANGED <<artifacts, choice, selected, form, failed>>

\* The Login button of login_page, lines 203-213.  A successful login sets
\* the session and calls st.experimental_rerun(): the script runs again.
Login(name, password) ==
    /\ screen.page = "login"
    /\ LET d == initialize_db(DB)
       IN  IF check_login(name, password, d.rows)
           THEN LET r == Script(d, TRUE, name, "Home", menu_options[1],
                                NoForm, "", Raised, NoQuery)
                IN  /\ logged_in' = TRUE
                    /\ username' = name
                    /\ Ran(r)
                    /\ pressed' = ""
           ELSE /\ loads' = load_models
                /\ calls' = << >>
                /\ screen' = Display("login", FALSE,
                                     Output("error", "", "Invalid credentials", 0))
                /\ photo' = None
                /\ chat' = NoChat
                /\ columns' = d.columns
                /\ users' = d.rows
                /\ pressed' = "Login"
                /\ UNCHANGED <<logged_in, username>>
    /\ UNCHANGED <<artifacts, choice, selected, form, failed>>

\* The Signup button of login_page, lines 215-224.
Signup(name, email, password) ==
    /\ screen.page = "login"
    /\ LET d   == initialize_db(DB)
           reg == register_user(name, email, password, d.rows)
       IN  /\ columns' = d.columns
           /\ users' = reg.table
           /\ screen' = Display("login", FALSE,
                                Output(IF reg.result = "Registration successful"
                                       THEN "success" ELSE "error", "", reg.result, 0))
    /\ loads' = load_models
    /\ calls' = << >>
    /\ photo' = None
    /\ chat' = NoChat
    /\ pressed' = "Signup"
    /\ UNCHANGED <<artifacts, logged_in, username, choice, selected, form, failed>>

\* The "Save changes" button of profile_page, lines 250-258: the image
\* saved is the one uploaded, or else the one read from the row in this
\* run; st.experimental_rerun() then runs the script again.
SaveProfile(input) ==
    /\ screen.page = "Profile"
    /\ screen.kind = "form"
    /\ LET d     == initialize_db(DB)
           user  == CHOOSE row \in get_user_details(username, d.rows) : TRUE
           profile_bytes == IF input.uploaded # None THEN input.uploaded
                            ELSE user.profile_image
           saved == [d EXCEPT !.rows = update_user_profile(username, input.fullname,
                                           input.phone, profile_bytes, d.rows)]
           r     == Script(saved, logged_in, username, choice, selected, form,
                           "", Raised, chat.query)
       IN  /\ form' = Kept(r.screen, form)
           /\ Ran(r)
    /\ pressed' = ""
    /\ UNCHANGED <<artifacts, logged_in, username, choice, selected, failed>>

\* The sidebar radio, lines 1231-1281.  Logout clears the session and calls
\* st.experimental_rerun().
Choose(c) ==
    /\ SidebarShown
    /\ c # choice
    /\ IF c = "Logout"
       THEN LET r == Script(DB, FALSE, None, "Home", menu_options[1],
                            NoForm, "", Raised, NoQuery)
            IN  /\ logged_in' = FALSE
                /\ username' = None
                /\ choice' = "Home"
                /\ selected' = menu_options[1]
                /\ form' = NoForm
                /\ Ran(r)
       ELSE LET r == Script(DB, logged_in, username, c, menu_options[1],
                            InitialForm(menu_options[1]), "", Raised, chat.query)
            IN  /\ choice' = c
                /\ selected' = menu_options[1]
                /\ form' = Kept(r.screen, InitialForm(menu_options[1]))
                /\ Ran(r)
                /\ UNCHANGED <<logged_in, username>>
    /\ pressed' = ""
    /\ UNCHANGED <<artifacts, failed>>

\* The option_menu: another prediction page is selected.
Select(key) ==
    /\ SidebarShown
    /\ choice = "Disease Predictions"
    /\ key # selected
    /\ LET r == Script(DB, logged_in, username, choice, key, InitialForm(key), "", Raised, chat.query)
       IN  /\ selected' = key
           /\ form' = Kept(r.screen, InitialForm(key))
           /\ Ran(r)
    /\ pressed' = ""
    /\ UNCHANGED <<artifacts, logged_in, username, choice, failed>>

\* A widget of the form shown is given another value.
Edit(i, v) ==
    /\ screen.form_shown
    /\ i \in DOMAIN Widgets(selected)
    /\ LET w == Widgets(selected)[i]
           f == [form EXCEPT ![w.key] = v]
           r == Script(DB, logged_in, username, choice, selected, f, "", Raised, chat.query)
       IN  /\ v \in w.values
           /\ v # form[w.key]
           /\ Cardinality(Edited(selected, f)) <= MaxEdits
           /\ form' = f
           /\ Ran(r)
    /\ pressed' = ""
    /\ UNCHANGED <<artifacts, logged_in, username, choice, selected, failed>>

\* A variant of PressRun that keeps the message shown in the user's row.
PressRun_saving(outcome) ==
    /\ screen.form_shown
    /\ outcome \in OutcomesOf(selected)
    /\ LET r == Script(DB, logged_in, username, choice, selected, form, Button(selected), outcome, chat.query)
       IN  /\ loads' = r.loads
           /\ calls' = r.calls
           /\ screen' = r.screen
           /\ photo' = r.photo
           /\ chat' = r.chat
           /\ columns' = r.columns
           /\ users' = {IF row.username = username
                        THEN [row EXCEPT !.fullname = r.screen.message]
                        ELSE row : row \in r.users}
    /\ pressed' = Button(selected)
    /\ UNCHANGED <<artifacts, logged_in, username, choice, selected, form>>

\* The run a press of the result button of the form shown triggers.
PressRun(outcome) ==
    /\ screen.form_shown
    /\ outcome \in OutcomesOf(selected)
    /\ LET r == Script(DB, logged_in, username, choice, selected, form, Button(selected), outcome, chat.query)
       IN  /\ Ran(r)
    /\ pressed' = Button(selected)
    /\ UNCHANGED <<artifacts, logged_in, username, choice, selected, form>>

\* The result button of the form shown is pressed.
Press(outcome) ==
    /\ PressRun(outcome)
    /\ UNCHANGED failed

\* The same press, with the history of failures kept.
PressTracked(outcome) ==
    /\ PressRun(outcome)
    /\ failed' = IF failed = "" /\ screen'.kind = "exception"
                 THEN Classifier(selected)
                 ELSE failed

\* The "Ask AI" button is pressed with the two texts typed.
AskAI(query) ==
    /\ chat.kind # "none"
    /\ LET r == Script(DB, logged_in, username, choice, selected, form, "ai_button", Raised, query)
       IN  /\ form' = Kept(r.screen, form)
           /\ Ran(r)
    /\ pressed' = "ai_button"
    /\ UNCHANGED <<artifacts, logged_in, username, choice, selected, failed>>

Next ==
    \/ Rerun
    \/ \E name \in Usernames, password \in Passwords : Login(name, password)
    \/ \E c \in Range(radio_options) : Choose(c)
    \/ \E key \in Range(menu_options) : Select(key)
    \/ \E i \in DOMAIN Widgets(selected) :
          \E v \in Widgets(selected)[i].values : Edit(i, v)
    \/ \E outcome \in OutcomesOf(selected) : Press(outcome)

Spec == Init /\ [][Next]_vars

\* The dispatcher applied to any key: render_disease_pages takes the key as
\* a plain string, and these are keys no branch of it names.
UnregisteredKeys == {"Jaundice prediction", "Malaria prediction"}

NextDispatch ==
    \/ Next
    \/ \E key \in UnregisteredKeys : Select(key)

SpecDispatch == Init /\ [][NextDispatch]_vars

\* The values the widgets of jaundice_page may hold.
JaundiceForms ==
    {FormOf(jaundice_widgets), [FormOf(jaundice_widgets) EXCEPT !.value_j = 1]}

\* jaundice_page drawn where the dispatcher draws the page selected.  No
\* statement of the app makes this call; it is made here from outside, with
\* the button of the page pressed or not.
JaundicePage(f, btn, outcome) ==
    /\ SidebarShown
    /\ choice = "Disease Predictions"
    /\ LET r == jaundice_page(f, btn, outcome)
       IN  /\ calls' = r.calls
           /\ screen' = Display("jaundice_page", r.form_shown, r.out)
    /\ pressed' = btn
    /\ UNCHANGED <<artifacts, columns, users, logged_in, username, choice,
                   selected, form, loads, photo, chat, failed>>

\* The app and its chatbot with any key handed to the dispatcher and with
\* jaundice_page called from outside, the forms of the pages left as they
\* are drawn.
NextJaundice ==
    \/ Rerun
    \/ \E name \in Usernames, password \in Passwords : Login(name, password)
    \/ \E c \in Range(radio_options) : Choose(c)
    \/ \E key \in Range(menu_options) \cup UnregisteredKeys : Select(key)
    \/ \E disease \in DiseaseQueries, question \in FollowupQueries :
          AskAI(Query(disease, question))
    \/ \E f \in JaundiceForms, btn \in {"", "jaundice_btn"}, outcome \in NumericOutcomes :
          JaundicePage(f, btn, outcome)

SpecJaundice == Init /\ [][NextJaundice]_vars

\* The app with its chatbot, the forms of the pages left as they are drawn.
NextChat ==
    \/ Rerun
    \/ \E name \in Usernames, password \in Passwords : Login(name, password)
    \/ \E c \in Range(radio_options) : Choose(c)
    \/ \E key \in Range(menu_options) : Select(key)
    \/ \E outcome \in OutcomesOf(selected) : Press(outcome)
    \/ \E disease \in DiseaseQueries, question \in FollowupQueries :
          AskAI(Query(disease, question))

SpecChat == Init /\ [][NextChat]_vars

\* The databases the server may find when it starts: no table, the table
\* of an earlier version of the app with a user, the table with a user who
\* has filled no profile, and the table with a user who has.
InitialDatabases ==
    LET alice == CHOOSE row \in InitialUsers : row.username = "alice"
    IN  { [columns |-> << >>, rows |-> {}],
          [columns |-> << "id", "username", "email", "password" >>,
           rows    |-> {[username |-> alice.username, email |-> alice.email,
                         password |-> alice.password]}],
          initialize_db([columns |-> << >>, rows |-> InitialUsers]),
          [columns |-> initialize_db([columns |-> << >>, rows |-> {}]).columns,
           rows    |-> {[alice EXCEPT !.fullname = "Alice", !.phone = "555",
                                      !.profile_image = "old.png"]}] }

InitAccounts ==
    /\ artifacts \in {S \in SUBSET ModelFiles : Cardinality(ModelFiles \ S) <= MaxMissing}
    /\ \E db \in InitialDatabases : columns = db.columns /\ users = db.rows
    /\ logged_in = FALSE
    /\ username = None
    /\ choice = "Home"
    /\ selected = menu_options[1]
    /\ form = NoForm
    /\ loads = [v \in ClassifierVars |-> 0]
    /\ pressed = ""
    /\ calls = << >>
    /\ screen = Display("none", FALSE, Output("nothing", "", "", 0))
    /\ photo = None
    /\ chat = NoChat
    /\ failed = ""

\* The app with its accounts: the login page with its two tabs, the sidebar
\* and the profile page.
NextAccounts ==
    \/ Rerun
    \/ \E name \in Usernames, password \in Passwords : Login(name, password)
    \/ \E name \in Usernames, email \in Emails, password \in Passwords \cup {"short"} :
          Signup(name, email, password)
    \/ \E c \in Range(radio_options) : Choose(c)
    \/ \E input \in ProfileInputs : SaveProfile(input)

SpecAccounts == InitAccounts /\ [][NextAccounts]_vars

\* The app with the history of failed requests recorded.
NextTracked ==
    \/ Rerun
    \/ \E name \in Usernames, password \in Passwords : Login(name, password)
    \/ \E c \in Range(radio_options) : Choose(c)
    \/ \E key \in Range(menu_options) : Select(key)
    \/ \E i \in DOMAIN Widgets(selected) :
          \E v \in Widgets(selected)[i].values : Edit(i, v)
    \/ \E outcome \in OutcomesOf(selected) : PressTracked(outcome)

SpecTracked == Init /\ [][NextTracked]_vars

-----------------------------------------------------------------------------
(* Properties.                                                             *)

\* The pages whose classifier was trained on numeric classes.
NumericPages ==
    {"Diabetes Prediction", "Heart disease Prediction", "Parkison Prediction",
     "Liver prediction", "Hepatitis prediction", "Chronic Kidney prediction",
     "Breast Cancer Prediction"}

\* The keys of the result buttons.
TaskButtons == {Button(page) : page \in Range(menu_options)}

\* The last run was a prediction request: the result button of the page
\* shown was pressed.
Requested == pressed \in TaskButtons /\ pressed = Button(selected)

\* The last run was a prediction request and its classifier returned a label.
Answered == Requested /\ calls # << >> /\ ~calls[1].outcome.raised

\* The two findings of a page: for the positive and for the negative class.
Findings(page) ==
    CASE page = "Diabetes Prediction"       -> <<diabetes_dig(Num(1)), diabetes_dig(Num(0))>>
      [] page = "Heart disease Prediction"  -> <<heart_dig(Num(1)), heart_dig(Num(0))>>
      [] page = "Parkison Prediction"       -> <<parkinson_dig(Num(1)), parkinson_dig(Num(0))>>
      [] page = "Liver prediction"          -> <<liver_dig(Num(1)), liver_dig(Num(0))>>
      [] page = "Hepatitis prediction"      -> <<hepatitis_result(Num(1)), hepatitis_result(Num(0))>>
      [] page = "Lung Cancer Prediction"    -> <<cancer_result(Str("YES")), cancer_result(Str("NO"))>>
      [] page = "Chronic Kidney prediction" -> <<kidney_prediction_dig(Num(1)), kidney_prediction_dig(Num(0))>>
      [] page = "Breast Cancer Prediction"  -> <<breast_cancer_result(Num(1)), breast_cancer_result(Num(0))>>

\* The finding on the screen is the positive (1) or the negative (2) one of
\* the page, its message is not empty and differs from the other one.
Shows(page, which) ==
    /\ screen.kind = "finding"
    /\ screen.image = (IF which = 1 THEN "positive.jpg" ELSE "negative.jpg")
    /\ screen.message = Findings(page)[which].message
    /\ screen.message # ""
    /\ screen.message # Findings(page)[3 - which].message

\* C1: on the seven pages whose classifier emits numeric labels, an answered
\* request shows the positive finding if and only if the raw label is 1 and
\* the negative finding for every other label; the message shown is one of
\* the page's two messages and is never empty.
C1_NumericLabelOneIsPositive ==
    (Answered /\ selected \in NumericPages) =>
        IF calls[1].outcome.label = Num(1)
        THEN Shows(selected, 1)
        ELSE Shows(selected, 2)

\* A Parkinson request answered with the label 2, which is neither class of
\* the usual pair, shows the negative finding.
C1_Witness ==
    /\ Answered
    /\ selected = "Parkison Prediction"
    /\ calls[1].outcome.label = Num(2)
    /\ Shows(selected, 2)

\* C2: on the lung cancer page, whose classifier emits strings, an answered
\* request shows the positive finding for the raw label 'YES' and the
\* negative finding for every other raw label, 'NO' included; the screen
\* holds one of the two findings, never the raw label.
C2_LungYesIsPositive ==
    (Answered /\ selected = "Lung Cancer Prediction") =>
        /\ IF calls[1].outcome.label = Str("YES")
           THEN Shows(selected, 1)
           ELSE Shows(selected, 2)
        /\ screen.message \notin {"YES", "NO"}

\* A lung cancer request answered with the number 1, the positive label of
\* the numeric pages, shows the negative finding.
C2_Witness ==
    /\ Answered
    /\ selected = "Lung Cancer Prediction"
    /\ calls[1].outcome.label = Num(1)
    /\ Shows(selected, 2)

\* C3: dispatching a key that is not registered raises UnknownTaskError, the
\* error is on the screen, and no classifier is invoked in that run.
C3_UnregisteredKeyRaises ==
    (logged_in /\ choice = "Disease Predictions" /\ screen.page = selected
              /\ selected \in UnregisteredKeys) =>
        /\ screen.kind = "exception"
        /\ screen.message = "UnknownTaskError"
        /\ calls = << >>

\* The files the module-level statements load a page's classifier from.
ArtifactsOf(page) ==
    IF page = "Disease Prediction" THEN {xgboost_model}
    ELSE {model_loading[i].file : i \in {j \in DOMAIN model_loading :
                                            model_loading[j].var = Classifier(page)}}

\* C4: a missing artifact disables its own task only: when a run has taken
\* place, a task whose artifacts are all on the disk is still served, so the
\* run has not ended at another task's load.
C4_MissingArtifactDisablesOnlyItsTask ==
    (screen.page # "none" /\ \E page \in Range(menu_options) : ArtifactsOf(page) \subseteq artifacts)
        => screen.page # "crash"

\* C5: every classifier handle is loaded once at process start and never
\* assigned again: no run assigns a handle more than once.
C5_HandlesLoadedOnce ==
    \A v \in ClassifierVars : loads[v] <= 1

\* C6: the classifier of a page is invoked only in a run in which the result
\* button of that page was pressed, exactly once in that run; when the call
\* raises, the run shows the exception and no finding, and makes no second
\* call.
C6_OneInvocationPerPress ==
    /\ Requested =>
          /\ Len(calls) = 1
          /\ calls[1].handle = Classifier(selected)
          /\ calls[1].outcome.raised =>
                (screen.kind = "exception" /\ screen.image = "")
    /\ ~Requested => calls = << >>

\* A request whose classifier call raised: one call, the exception shown.
C6_Witness ==
    /\ Requested
    /\ Len(calls) = 1
    /\ calls[1].outcome.raised
    /\ screen.kind = "exception"

\* The row a page builds from the values f of its widgets.
Row(page, f) ==
    CASE page = "Disease Prediction"        -> List(prepare_symptoms_array(f.symptoms))
      [] page = "Diabetes Prediction"       -> diabetes_features(f)
      [] page = "Heart disease Prediction"  -> heart_features(f)
      [] page = "Parkison Prediction"       -> parkinson_features(f)
      [] page = "Liver prediction"          -> liver_features(f)
      [] page = "Hepatitis prediction"      -> hepatitis_features(f)
      [] page = "Lung Cancer Prediction"    -> lung_cancer_features(f)
      [] page = "Chronic Kidney prediction" -> chronic_kidney_features(f)
      [] page = "Breast Cancer Prediction"  -> breast_cancer_features(f)

\* The number of cells of a page's row.
RowLength(page) ==
    CASE page = "Disease Prediction"        -> Len(all_symptoms)
      [] page = "Diabetes Prediction"       -> 8
      [] page = "Heart disease Prediction"  -> 13
      [] page = "Parkison Prediction"       -> 22
      [] page = "Liver prediction"          -> 10
      [] page = "Hepatitis prediction"      -> 12
      [] page = "Lung Cancer Prediction"    -> 15
      [] page = "Chronic Kidney prediction" -> 24
      [] page = "Breast Cancer Prediction"  -> 30

Cell(df, column) ==
    df.values[CHOOSE i \in DOMAIN df.columns : df.columns[i] = column]

\* C8: in the hepatitis row every laboratory column carries the input of the
\* quantity it is named after: ALB the albumin, ALP the alkaline phosphatase,
\* ALT the alamine aminotransferase, AST the aspartate aminotransferase, BIL
\* a bilirubin and PROT a protein input.
C8_HepatitisColumnsCarryTheirQuantity ==
    (Requested /\ calls # << >> /\ selected = "Hepatitis prediction") =>
        LET row == calls[1].features
        IN  /\ Cell(row, "ALB") = Num(form.albumin)
            /\ Cell(row, "ALP") = Num(form.alkaline_phosphatase)
            /\ Cell(row, "ALT") = Num(form.alamine_aminotransferase)
            /\ Cell(row, "AST") = Num(form.aspartate_aminotransferase)
            /\ Cell(row, "BIL") \in {Num(form.total_bilirubin), Num(form.direct_bilirubin)}
            /\ Cell(row, "PROT") \in {Num(form.total_proteins), Num(form.prot_value)}

\* The code a label has under a mapping given as label/code pairs.
Code(pairs, label) ==
    Num(pairs[CHOOSE i \in DOMAIN pairs : pairs[i][1] = label][2])

\* C9: each page encodes its labels with its own mapping: the lung cancer
\* page NO as 1 and YES as 2, the heart page male as 1 and female as 0, the
\* liver page Male as 0 and Female as 1, the hepatitis page Male as 1 and
\* Female as 2; the row of a request holds the code of its own page.
C9_EncodingsArePerTask ==
    (Requested /\ calls # << >>) =>
        LET row == calls[1].features
        IN  /\ selected = "Lung Cancer Prediction" =>
                  \A i \in 3 .. 15 :
                      row.values[i] = Code(<< <<"NO", 1>>, <<"YES", 2>> >>,
                                           form[lung_cancer_widgets[i].key])
            /\ selected = "Heart disease Prediction" =>
                  row.values[2] = Code(<< <<"male", 1>>, <<"female", 0>> >>,
                                       <<"male", "female">>[form.value + 1])
            /\ selected = "Liver prediction" =>
                  row.values[1] = Code(<< <<"Male", 0>>, <<"Female", 1>> >>,
                                       <<"Male", "Female">>[form.value_gender + 1])
            /\ selected = "Hepatitis prediction" =>
                  Cell(row, "Sex") = Code(<< <<"Male", 1>>, <<"Female", 2>> >>,
                                          form.sex_hep)

\* A liver request for a female patient: the row holds 1, where the heart
\* page would hold 0.
C9_Witness ==
    /\ Requested
    /\ calls # << >>
    /\ selected = "Liver prediction"
    /\ form.value_gender = 1
    /\ calls[1].features.values[1] = Num(1)

\* The labeled-choice fields of the lung cancer form: all but the age.
LungChoices == {lung_cancer_widgets[i].key : i \in {1} \cup (3 .. 15)}

\* C10: a labeled-choice value that its field's mapping does not hold makes
\* the request fail with UnknownCategoryError: on the lung cancer page, whose
\* mapping holds NO and YES, no classifier call is made with such a value
\* and the error is on the screen.
C10_UnmappedCategoryRaises ==
    (Requested /\ selected = "Lung Cancer Prediction"
               /\ \E k \in LungChoices : form[k] \notin {"NO", "YES"}) =>
        /\ calls = << >>
        /\ screen.kind = "exception"
        /\ screen.message = "UnknownCategoryError"

\* C11: every row handed to a classifier is fully numeric: each cell is a
\* number, the cells of the labeled choices (GENDER of the lung cancer row
\* among them) having been replaced by the integers of their mapping.
C11_RowsAreNumeric ==
    (Requested /\ calls # << >>) =>
        \A i \in DOMAIN calls[1].features.values :
            calls[1].features.values[i].t = "num"

\* The last run was an answered request of the symptom page.
Diagnosed == Answered /\ selected = "Disease Prediction"

\* C12: the confidence shown for a symptom prediction is the raw probability
\* clamped to [0,1], as a percentage: it lies between 0 and 100 (here in
\* hundredths of a percent) for every raw probability.
C12_PercentageIsClamped ==
    Diagnosed =>
        LET prob    == calls[1].outcome.prob
            clamped == IF prob < 0 THEN 0 ELSE IF prob > 1000 THEN 1000 ELSE prob
        IN  /\ screen.percent = clamped * 10
            /\ screen.percent \in 0 .. 10000

C15_SelectionWithinVocabulary ==
    /\ disease_prediction_widgets[1].values = SUBSET Range(all_symptoms)
    /\ (selected = "Disease Prediction" /\ screen.form_shown) =>
          /\ form.symptoms \subseteq Range(all_symptoms)
          /\ Requested => Len(calls[1].features.values) = Len(all_symptoms)

\* A symptom request with every symptom of the vocabulary selected.
C15_Witness ==
    /\ Requested
    /\ selected = "Disease Prediction"
    /\ form.symptoms = Range(all_symptoms)
    /\ \A i \in 1 .. Len(all_symptoms) : calls[1].features.values[i] = Num(1)

\* C16: for a predicted disease whose metadata holds k precautions, k from
\* 0 to 4, the result is shown without error and lists those k precautions.
C16_UpToFourPrecautions ==
    (Diagnosed /\ calls[1].outcome.label.s \in DOMAIN DiseaseMeta) =>
        /\ screen.kind = "diagnosis"
        /\ screen.precautions = DiseaseMeta[calls[1].outcome.label.s].precautions

\* C17: the encodings are reversible: in the row of a request, choosing
\* any other label offered by a labeled widget of the page would have given
\* another row, so no two labels of a field share a code and the label
\* chosen can be recovered from the row.
C17_EncodingsAreReversible ==
    (Requested /\ calls # << >>) =>
        \A i \in DOMAIN Widgets(selected) :
            LET w == Widgets(selected)[i]
            IN  w.labeled =>
                  \A v \in w.values \ {form[w.key]} :
                      Row(selected, [form EXCEPT ![w.key] = v]) # calls[1].features

\* A heart request with the last of the four chest pain types chosen.
C17_Witness ==
    /\ Requested
    /\ calls # << >>
    /\ selected = "Heart disease Prediction"
    /\ form.value_cp = 3
    /\ calls[1].features.values[3] = Num(3)

\* C18: keys, schemas and handles correspond one to one: every key of the
\* menu is compared with by exactly one branch of the dispatcher and every
\* branch names a key of the menu; the page drawn for the key selected is
\* the page of that key; a request invokes the classifier of the page with
\* the row of the page's schema; no two pages share a classifier.
C18_KeysPagesHandlesCorrespond ==
    /\ \A key \in Range(menu_options) :
           \E i \in DOMAIN branch_keys :
               /\ branch_keys[i] = key
               /\ \A j \in DOMAIN branch_keys : branch_keys[j] = key => j = i
    /\ Range(branch_keys) \subseteq Range(menu_options)
    /\ \A p, q \in Range(menu_options) : Classifier(p) = Classifier(q) => p = q
    /\ (SidebarShown /\ choice = "Disease Predictions") =>
           /\ screen.page = selected
           /\ screen.kind # "nothing"
    /\ (Requested /\ screen.form_shown) =>
           /\ Len(calls) = 1
           /\ calls[1].handle = Classifier(selected)
           /\ calls[1].features = Row(selected, form)
           /\ \A page \in Range(menu_options) \ {selected} :
                  calls[1].handle # Classifier(page)

\* A request on the page of the last key of the menu.
C18_Witness ==
    /\ Requested
    /\ selected = "Breast Cancer Prediction"
    /\ screen.page = "Breast Cancer Prediction"
    /\ Len(calls) = 1
    /\ calls[1].handle = "breast_cancer_model"

\* The output of a request on a page whose classifier gave the outcome,
\* as the page's own code determines it.
ResultAlone(page, outcome) ==
    IF page = "Disease Prediction"
    THEN IF outcome.raised
         THEN Output("exception", "", "Exception", 0)
         ELSE symptom_result(outcome)
    ELSE IF outcome.raised
    THEN Output("exception", "", "Exception", 0)
    ELSE LET positive == IF page \in NumericPages THEN Num(1) ELSE Str("YES")
             finding  == Findings(page)[IF outcome.label = positive THEN 1 ELSE 2]
         IN  Output("finding", finding.image, finding.message, 0)

\* C19: the tasks are independent across requests: a request made after a
\* request of another task has failed makes the one call of its own page,
\* on the row of its own form, and shows the result its own classifier's
\* outcome determines, as if the failure had not happened.
C19_FailureLeavesOtherTasksAlone ==
    (Requested /\ screen.form_shown /\ failed \notin {"", Classifier(selected)}) =>
        /\ Len(calls) = 1
        /\ calls[1].handle = Classifier(selected)
        /\ calls[1].features = Row(selected, form)
        /\ screen = Display(selected, TRUE, ResultAlone(selected, calls[1].outcome))

\* After a diabetes request has failed, a heart request is answered.
C19_Witness ==
    /\ Answered
    /\ selected = "Heart disease Prediction"
    /\ failed = "diabetes_model"
    /\ Shows(selected, 1)

\* Users tables the app may hold: the initial one, the user with a photo,
\* with a photo that cannot be decoded, another user with a photo, no user.
UserTables ==
    LET alice == CHOOSE row \in InitialUsers : row.username = "alice"
        bob   == [alice EXCEPT !.username = "bob", !.email = <<"b", "@", "x", ".", "y">>,
                               !.password = hash_password("letmein"),
                               !.profile_image = "bob.png"]
    IN  { InitialUsers,
          {[alice EXCEPT !.profile_image = "alice.png"]},
          {[alice EXCEPT !.profile_image = "broken"]},
          {alice, bob},
          {} }

\* C20: the prediction does not depend on the user or on the users table:
\* for the task and the input of a request, main() makes the same calls and
\* writes the same page whichever user is logged in and whichever users
\* table the database holds.
C20_PredictionIgnoresUserAndTable ==
    Requested =>
        LET outcome == IF calls # << >> THEN calls[1].outcome ELSE Raised
        IN  \A name \in Usernames \cup {None}, table \in UserTables :
                LET m == main(TRUE, name, table, choice, selected, form, pressed, outcome, chat.query)
                IN  /\ m.calls = calls
                    /\ m.screen = screen

\* An answered diabetes request of a user without a photo; for another user
\* and table the sidebar would show a photo.
C20_Witness ==
    /\ Answered
    /\ selected = "Diabetes Prediction"
    /\ Shows(selected, 1)
    /\ username = "alice"
    /\ photo = None
    /\ \E table \in UserTables :
           main(TRUE, "bob", table, choice, selected, form, pressed,
                calls[1].outcome, chat.query).photo = "bob.png"

\* C21: a prediction is not persisted: a run that draws a prediction page,
\* with its result button pressed or not, leaves the users table and the
\* session's logged_in and username as they were.
C21_PredictionIsNotPersisted ==
    [][screen'.page \in Range(menu_options) =>
          /\ users' = users
          /\ logged_in' = logged_in
          /\ username' = username]_vars

\* An answered heart request; the table and the session are those of the login.
C21_Witness ==
    /\ Answered
    /\ selected = "Heart disease Prediction"
    /\ Shows(selected, 1)
    /\ logged_in
    /\ username = "alice"
    /\ users = InitialUsers

\* C29: simple_ai_bot answers every name: a name that is a key of the
\* dictionary once lower-cased and trimmed yields the text of that key, any
\* other name the fallback text; the question follows the text if and only
\* if it is not blank; a blank name gets the warning and no answer.
C29_ChatbotLookup ==
    (pressed = "ai_button" /\ chat.kind # "none") =>
        LET disease  == chat.query.disease
            question == chat.query.question
            fallback == "I don't have information about this specific disease, ..."
        IN  IF disease \in {<< >>, << " ", " " >>}
            THEN chat.kind = "warning"
            ELSE /\ chat.kind = "response"
                 /\ chat.text[1] =
                       CASE disease = <<" ", "D", "i", "a", "b", "e", "t", "e", "s", " ">> ->
                                disease_info[<<"d", "i", "a", "b", "e", "t", "e", "s">>]
                         [] disease = <<"H", "E", "P", "A", "T", "I", "T", "I", "S">> ->
                                disease_info[<<"h", "e", "p", "a", "t", "i", "t", "i", "s">>]
                         [] OTHER -> fallback
                 /\ chat.text[1] = fallback \/
                       \E key \in DOMAIN disease_info : chat.text[1] = disease_info[key]
                 /\ IF question \in {<< >>, << " " >>}
                    THEN chat.text = << chat.text[1] >>
                    ELSE chat.text = << chat.text[1], " ",
                                        "Here is a simple answer to your question: ",
                                        question >>

\* The name " Diabetes " with the question " why? " is answered with the
\* text of the key "diabetes", followed by the question as typed.
C29_Witness ==
    /\ pressed = "ai_button"
    /\ chat.kind = "response"
    /\ chat.query = Query(<<" ", "D", "i", "a", "b", "e", "t", "e", "s", " ">>, <<" ", "w", "h", "y", "?", " ">>)
    /\ chat.text = << "Diabetes is a long-term metabolic disorder ...", " ",
                      "Here is a simple answer to your question: ",
                      <<" ", "w", "h", "y", "?", " ">> >>

\* C22: access is gated by the session: while logged_in is false, a run
\* that reaches main() draws the login page only: no prediction page, no
\* profile page, no sidebar photo, no chatbot section, and no classifier is
\* loaded by a page or invoked.
C22_OnlyLoginPageBeforeLogin ==
    ~logged_in =>
        /\ screen.page \in {"none", "crash", "login"}
        /\ ~screen.form_shown
        /\ screen.kind \notin {"finding", "diagnosis"}
        /\ calls = << >>
        /\ chat = NoChat
        /\ photo = None
        /\ loads["disease_model"] = 0

\* A run with logged_in false in which a login was tried and turned down.
C22_Witness ==
    /\ ~logged_in
    /\ pressed = "Login"
    /\ screen.page = "login"
    /\ screen.message = "Invalid credentials"
    /\ chat = NoChat

\* C23: the session over logins, navigation and logouts: a login that
\* check_login accepts sets logged_in and makes username the name typed,
\* one it turns down changes neither; Logout sets logged_in to false and
\* username to None and the run that follows draws the login page; no other
\* step changes either value, so while logged_in is true username is the
\* name of the last accepted login and is not None.
C23_SessionFollowsLoginAndLogout ==
    [][/\ \A name \in Usernames, password \in Passwords :
             Login(name, password) =>
                 IF check_login(name, password, users)
                 THEN logged_in' /\ username' = name
                 ELSE ~logged_in' /\ username' = username
       /\ Choose("Logout") =>
             /\ ~logged_in'
             /\ username' = None
             /\ screen'.page = "login"
       /\ (logged_in' # logged_in \/ username' # username) =>
             \/ \E name \in Usernames, password \in Passwords : Login(name, password)
             \/ Choose("Logout")
       /\ logged_in' => username' \in Usernames
       /\ ~logged_in' => username' = None]_vars

\* The second user has registered and logged in.
C23_Witness ==
    /\ logged_in
    /\ username = "bob"
    /\ screen.page = "Home"
    /\ \E row \in users : row.username = "alice"

\* C24: a login is accepted if and only if the table has a row for the name
\* typed whose stored password is the digest of the password typed; a login
\* turned down leaves logged_in and username as they were; the password
\* stored by a registration is the digest of the password given, and every
\* stored password is a digest, never a password as typed.
C24_LoginChecksTheDigest ==
    [][/\ \A name \in Usernames, password \in Passwords :
             Login(name, password) =>
                 IF \E row \in users : /\ row.username = name
                                        /\ row.password = << "sha256", password >>
                 THEN logged_in'
                 ELSE /\ UNCHANGED <<logged_in, username>>
                      /\ screen'.message = "Invalid credentials"
       /\ \A name \in Usernames, email \in Emails, password \in Passwords \cup {"short"} :
             (Signup(name, email, password)
                 /\ screen'.message = "Registration successful") =>
                 \E row \in users' : /\ row.username = name
                                      /\ row.password = << "sha256", password >>
       /\ \A row \in users' :
             \E password \in Passwords : row.password = << "sha256", password >>]_vars

\* A login of the second user, registered with "letmein", was turned down.
C24_Witness ==
    /\ pressed = "Login"
    /\ ~logged_in
    /\ username = None
    /\ screen.message = "Invalid credentials"
    /\ \E row \in users : row.username = "bob" /\ row.password = << "sha256", "letmein" >>

\* The name, email and stored password of every row.
Credentials(table) == {<< row.username, row.email, row.password >> : row \in table}

\* C25: no two rows of the users table share a username and no two share
\* an email; a registration, valid otherwise, with the username or the
\* email of a row is answered "Username or email already exists" and leaves
\* the names, emails and passwords of the table as they were.
C25_UsernamesAndEmailsAreUnique ==
    [][/\ \A r1 \in users', r2 \in users' :
             (r1.username = r2.username \/ r1.email = r2.email) => r1 = r2
       /\ \A name \in Usernames, email \in {<<"a", "@", "x", ".", "y">>, <<"b", "@", "x", ".", "y">>},
               password \in Passwords :
             (Signup(name, email, password)
                 /\ \E row \in users : row.username = name \/ row.email = email) =>
                 /\ screen'.message = "Username or email already exists"
                 /\ Credentials(users') = Credentials(users)]_vars

\* A registration was refused as a duplicate; the table holds the first
\* user, with the password of the first registration.
C25_Witness ==
    /\ pressed = "Signup"
    /\ screen.message = "Username or email already exists"
    /\ Credentials(users) = {<< "alice", <<"a", "@", "x", ".", "y">>, << "sha256", "secret1" >> >>}

\* C26: a registration is validated before it writes: an email that does
\* not match the pattern is answered "Invalid email format" whatever the
\* password, a password of fewer than 6 characters "Password must be at
\* least 6 characters", and neither inserts a row; "Registration successful"
\* is the answer exactly when the row of the registration was inserted.
C26_RegistrationValidatesFirst ==
    [][\A name \in Usernames, email \in Emails, password \in Passwords \cup {"short"} :
          Signup(name, email, password) =>
              LET entry == << name, email, << "sha256", password >> >>
              IN  IF email = <<"b", "@", "x">>
                  THEN /\ screen'.message = "Invalid email format"
                       /\ Credentials(users') = Credentials(users)
                  ELSE IF password = "short"
                  THEN /\ screen'.message = "Password must be at least 6 characters"
                       /\ Credentials(users') = Credentials(users)
                  ELSE IF screen'.message = "Registration successful"
                  THEN /\ entry \notin Credentials(users)
                       /\ Credentials(users') = Credentials(users) \cup {entry}
                  ELSE Credentials(users') = Credentials(users)]_vars

\* A registration was refused for its email; the table has no row.
C26_Witness ==
    /\ pressed = "Signup"
    /\ screen.message = "Invalid email format"
    /\ screen.kind = "error"
    /\ users = {}

\* C27: saving the profile changes the fullname, the phone and the image
\* of the row of the logged-in user and nothing else: the username, email
\* and password of that row and every other row stay, the session stays,
\* and when no image is uploaded the image stored stays.
C27_SaveChangesOnlyTheProfile ==
    [][\A input \in ProfileInputs :
          SaveProfile(input) =>
              /\ \A row \in users : row.username # username => row \in users'
              /\ \A new \in users' : new.username # username => new \in users
              /\ \E old \in users, new \in users' :
                     /\ old.username = username
                     /\ new.username = username
                     /\ new.email = old.email
                     /\ new.password = old.password
                     /\ new.fullname = input.fullname
                     /\ new.phone = input.phone
                     /\ new.profile_image = IF input.uploaded = None
                                            THEN old.profile_image
                                            ELSE input.uploaded
                     /\ users' \ {new} = users \ {old}
              /\ UNCHANGED <<logged_in, username, columns>>]_vars

\* The first user has saved a name and uploaded no image: the image stored
\* before is kept, and the row of the second user is as it was registered.
C27_Witness ==
    /\ logged_in
    /\ username = "alice"
    /\ screen.page = "Profile"
    /\ \E row \in users : /\ row.username = "alice"
                           /\ row.fullname = "Alice A."
                           /\ row.profile_image = "old.png"
    /\ \E row \in users : /\ row.username = "bob"
                           /\ row.fullname = None
                           /\ row.profile_image = None

\* C28: the jaundice page is unreachable and its model is never loaded: the
\* key "Jaundice prediction" is neither an option of the menu nor a key of
\* the dispatcher, and a run of the script with that key selected draws no
\* page, offers no result button and invokes nothing; no load statement
\* assigns jaundice_model and no invocation is made through it; and wherever
\* jaundice_page is called with its button pressed, it ends in the "model
\* not available" error, with no invocation made, no image and no finding
\* shown.
C28_JaundiceIsUnreachableAndUnavailable ==
    /\ "Jaundice prediction" \notin Range(menu_options)
    /\ "Jaundice prediction" \notin Range(branch_keys)
    /\ "jaundice_model" \notin DOMAIN loads
    /\ \A i \in DOMAIN calls : calls[i].handle # "jaundice_model"
    /\ screen.page = "Jaundice prediction"
          => /\ ~screen.form_shown
             /\ screen.kind = "nothing"
             /\ calls = << >>
             /\ pressed \in {"", "ai_button"}
    /\ pressed = "jaundice_btn"
          => /\ screen.page = "jaundice_page"
             /\ screen.kind = "error"
             /\ screen.message = "Jaundice model not available or an error occurred: name 'jaundice_model' is not defined"
             /\ screen.image = ""
             /\ calls = << >>
    /\ screen.page = "jaundice_page" => screen.kind \in {"form", "error"}

\* The key was handed to the dispatcher, which drew nothing, and then the
\* page was called from outside with its button pressed.
C28_Witness ==
    /\ selected = "Jaundice prediction"
    /\ screen.page = "jaundice_page"
    /\ pressed = "jaundice_btn"
    /\ screen.kind = "error"

\* C30: initialize_db runs in every run, is idempotent and destroys
\* nothing: after a run the table has the seven columns; a run keeps the
\* columns it finds, in their order, and the values every row has in them;
\* and a run after the first, if it neither registers a user nor saves a
\* profile, leaves the columns and the rows as they were.
C30_InitializeDbIsIdempotent ==
    [][/\ \A c \in {"id", "username", "email", "password",
                     "fullname", "phone", "profile_image"} :
             \E i \in DOMAIN columns' : columns'[i] = c
       /\ Len(columns) <= Len(columns')
       /\ SubSeq(columns', 1, Len(columns)) = columns
       /\ (pressed' # "Signup" /\ ~ \E input \in ProfileInputs : SaveProfile(input)) =>
             /\ Cardinality(users') = Cardinality(users)
             /\ \A row \in users :
                    \E new \in users' : \A c \in DOMAIN row : new[c] = row[c]
             /\ screen.page # "none" => (columns' = columns /\ users' = users)]_vars

\* After the run of the start, of a login and of a choice, the user found
\* at the start has the name, the phone and the image found at the start.
C30_Witness ==
    /\ logged_in
    /\ screen.page = "Disease Prediction"
    /\ Len(columns) = 7
    /\ \E row \in users : /\ row.username = "alice"
                           /\ row.fullname = "Alice"
                           /\ row.phone = "555"
                           /\ row.profile_image = "old.png"

=============================================================================
